---- MODULE Spec2Model ----
(***************************************************************************)
(* RWStl_Reader (OCCT): the STL reader.  Read opens a stream, detects the  *)
(* format from the first 134 bytes, and runs ReadAscii or ReadBinary block *)
(* after block; each block merges its nodes through a MergeNodeTool and    *)
(* delivers nodes and triangles to the sink (the virtual AddNode and       *)
(* AddTriangle of the reader).                                             *)
(*                                                                         *)
(* The stream is a sequence of bytes (0..255) with a read position and the *)
(* eofbit / failbit of std::istream.  Coordinates are kept exactly, as     *)
(* integers in units of 2^-27: every 32-bit float with exponent field in   *)
(* 123..129 (magnitude in [1/16, 8)) and zero is such an integer.          *)
(***************************************************************************)
EXTENDS Integers, Sequences, FiniteSets, TLC

VARIABLES
  stream,            \* the bytes of the file
  canOpen,           \* whether OSD_OpenStream opens the file
  readError,         \* whether the reads of the opened file fail
  pos,               \* read position of aStream (offset of the next byte)
  eofbit, failbit,   \* state bits of aStream
  pc,                \* position of the Read call
  theEnd,            \* Read: length of the file
  isAscii,           \* Read: the detected format
  probed,            \* whether IsAscii made its probe read
  cancel,            \* Message_ProgressScope: user break requested
  nbBlocks,          \* number of block reader invocations so far
  myMap,             \* MergeNodeTool::myMap of the running block
  sinkNodes,         \* the sink: points registered, in index order
  sinkCalls,         \* every sink call made, in order
  msgs,              \* messages sent through Message::SendFail
  result,            \* value returned by Read ("none" while running)
  aNbFacets,         \* ReadBinary: declared facet count
  aNbFacetRead,      \* ReadBinary: loop counter
  aNbFacesInBuffer,  \* ReadBinary: facets left in the chunk buffer
  aBuffer,           \* ReadBinary: chunk buffer
  aBufferPtr,        \* ReadBinary: offset of the current facet in aBuffer
  aVertex,           \* the three points of the facet being added
  nodeIdx,           \* n1, n2, n3 resolved so far for that facet
  blockFacets,       \* the facets the running block has handed to its merge tool
  lastAdd,           \* the last MergeNodeTool::AddNode call: point, hit, index
  aStartPos,         \* ReadAscii: stream offset at block start
  aProgressPos,      \* ReadAscii: next offset that makes a progress step
  aNbLine,           \* ReadAscii: approximate line number
  aNbSteps,          \* declared total of the block's progress scope
  psSteps,           \* aPS.Next() calls made in the running block
  stepB,             \* ReadAscii: bytes per progress step (aStepB)
  locale,            \* numeric locale of the thread
  savedLocale        \* locale saved by Standard_CLocaleSentry

streamVars == <<stream, canOpen, readError, pos, eofbit, failbit>>
readVars   == <<pc, theEnd, isAscii, probed, nbBlocks, result>>
sinkVars   == <<myMap, sinkNodes, sinkCalls, lastAdd>>
binVars    == <<aNbFacets, aNbFacetRead, aNbFacesInBuffer, aBuffer, aBufferPtr>>
facetVars  == <<aVertex, nodeIdx, blockFacets>>
asciiVars  == <<aStartPos, aProgressPos, aNbLine, locale, savedLocale>>
progVars   == <<aNbSteps, psSteps, stepB>>
vars == <<streamVars, readVars, sinkVars, binVars, facetVars, asciiVars,
          progVars, cancel, msgs>>

----------------------------------------------------------------------------
(* Program constants *)

THE_STL_HEADER_SIZE == 84
THE_STL_SIZEOF_FACET == 50
THE_STL_MIN_FILE_SIZE == THE_STL_HEADER_SIZE + THE_STL_SIZEOF_FACET
THE_CHUNK_NBFACETS == 80
aVec3Size == 12
aFaceDataLen == aVec3Size * 4 + 2
aStepB == 1024 * 1024
TILDE == 126
NbBuckets == 1024

\* One coordinate unit is 2^-27.
Unit == 2^27

\* Precision::SquareConfusion() is 1e-14.  In squared units that is
\* 1e-14 * 2^54 = 180.14..., so an integer d2 is below it iff d2 < 181.
SquareConfusion == 180 + 1

Min(a, b) == IF a < b THEN a ELSE b
Abs(a) == IF a < 0 THEN -a ELSE a

Rep(b, n) == [i \in 1..n |-> b]

\* The least offset q in p..Len(s) such that the byte after it does not
\* satisfy Keep (Len(s) when every byte from p on does).
ScanWhile(s, p, Keep(_)) ==
  IF \A i \in (p + 1)..Len(s) : Keep(s[i]) THEN Len(s)
  ELSE (CHOOSE i \in (p + 1)..Len(s) :
          /\ ~Keep(s[i])
          /\ \A j \in (p + 1)..(i - 1) : Keep(s[j])) - 1

RECURSIVE Flatten(_)
Flatten(ss) == IF ss = <<>> THEN <<>> ELSE Head(ss) \o Flatten(Tail(ss))

----------------------------------------------------------------------------
(* MergeNodeTool *)

\* gp_XYZ subtraction and SquareModulus, compared with the tolerance.  A
\* coordinate difference of 14 units or more already exceeds it.
IsEqual(thePnt1, thePnt2) ==
  /\ Abs(thePnt1[1] - thePnt2[1]) < 14
  /\ Abs(thePnt1[2] - thePnt2[2]) < 14
  /\ Abs(thePnt1[3] - thePnt2[3]) < 14
  /\ (thePnt1[1] - thePnt2[1]) * (thePnt1[1] - thePnt2[1])
     + (thePnt1[2] - thePnt2[2]) * (thePnt1[2] - thePnt2[2])
     + (thePnt1[3] - thePnt2[3]) * (thePnt1[3] - thePnt2[3])
       < SquareConfusion

\* ::HashCode (Standard_Real, upper): the reduction of a real into
\* [1, theUpperBound].
HashCodeReal(v, theUpperBound) == (v % theUpperBound) + 1

\* x * M_LN10 + y * M_PI + z * M_E, the three constants in thousandths; the
\* sum is formed modulo the bucket count so that it stays in range.
HashCode(thePoint, theUpperBound) ==
  HashCodeReal(((thePoint[1] % theUpperBound) * 2303
                + (thePoint[2] % theUpperBound) * 3142
                + (thePoint[3] % theUpperBound) * 2718), theUpperBound)

\* NCollection_DataMap::Find: walk the chain of the key's bucket and compare
\* with the hasher's IsEqual.  myMap lists the entries newest first, the
\* order of a bucket chain.
RECURSIVE MapFind(_, _)
MapFind(map, aPnt) ==
  IF map = <<>> THEN [found |-> FALSE, idx |-> -1]
  ELSE IF /\ HashCode(Head(map).pnt, NbBuckets) = HashCode(aPnt, NbBuckets)
          /\ IsEqual(Head(map).pnt, aPnt)
       THEN [found |-> TRUE, idx |-> Head(map).idx]
       ELSE MapFind(Tail(map), aPnt)

\* NCollection_DataMap::Bind: a new entry at the head of its bucket chain.
MapBind(map, aPnt, anIndex) == <<[pnt |-> aPnt, idx |-> anIndex]>> \o map

\* The sink's AddNode: stores the point and returns its index.
SinkAddNode(nodes, aPnt) == [nodes |-> Append(nodes, aPnt), idx |-> Len(nodes) + 1]

\* As the constructor, but the map of the block before lives on.
MergeNodeTool_New_Kept(oldMap) == oldMap

\* MergeNodeTool::MergeNodeTool: an empty map for the block.
MergeNodeTool_New(oldMap) == <<>>

\* As MergeNodeTool::AddNode, but a hit returns the position of the entry in
\* the map in place of the index stored with it.
MergeNodeTool_AddNode_Position(map, nodes, aPnt) ==
  LET f == MapFind(map, aPnt) IN
  IF f.found
  THEN [idx |-> Len(map) + 1, hit |-> TRUE, map |-> map, nodes |-> nodes]
  ELSE LET r == SinkAddNode(nodes, aPnt) IN
       [idx |-> r.idx, hit |-> FALSE,
        map |-> MapBind(map, aPnt, r.idx), nodes |-> r.nodes]

\* As MergeNodeTool::AddNode, but a hit binds the point as well, with the
\* index found.
MergeNodeTool_AddNode_BindAlways(map, nodes, aPnt) ==
  LET f == MapFind(map, aPnt) IN
  IF f.found
  THEN [idx |-> f.idx, hit |-> TRUE, map |-> MapBind(map, aPnt, f.idx), nodes |-> nodes]
  ELSE LET r == SinkAddNode(nodes, aPnt) IN
       [idx |-> r.idx, hit |-> FALSE,
        map |-> MapBind(map, aPnt, r.idx), nodes |-> r.nodes]

\* As MergeNodeTool::AddNode, but a miss does not bind the new index.
MergeNodeTool_AddNode_NoBind(map, nodes, aPnt) ==
  LET f == MapFind(map, aPnt) IN
  IF f.found
  THEN [idx |-> f.idx, hit |-> TRUE, map |-> map, nodes |-> nodes]
  ELSE LET r == SinkAddNode(nodes, aPnt) IN
       [idx |-> r.idx, hit |-> FALSE, map |-> map, nodes |-> r.nodes]

\* MergeNodeTool::AddNode on (map, sink nodes): the index returned, whether
\* the lookup hit, and the map and the sink afterwards.
MergeNodeTool_AddNode(map, nodes, aPnt) ==
  LET f == MapFind(map, aPnt) IN
  IF f.found
  THEN [idx |-> f.idx, hit |-> TRUE, map |-> map, nodes |-> nodes]
  ELSE LET r == SinkAddNode(nodes, aPnt) IN
       [idx |-> r.idx, hit |-> FALSE,
        map |-> MapBind(map, aPnt, r.idx), nodes |-> r.nodes]

----------------------------------------------------------------------------
(* Binary decoding *)

\* readStlFloat: four little-endian bytes as an IEEE-754 single, in units.
\* sign = bit 31, exponent = bits 30..23, mantissa = bits 22..0.
readStlFloat(theData) ==
  LET sign == theData[4] \div 128
      expo == (theData[4] % 128) * 2 + (theData[3] \div 128)
      mant == (theData[3] % 128) * 65536 + theData[2] * 256 + theData[1]
      mag  == CASE expo = 0 /\ mant = 0 -> 0
                []  expo \in 123..129 -> (8388608 + mant) * 2^(expo - 123)
  IN IF sign = 1 THEN -mag ELSE mag

readStlFloatVec3(theData) ==
  << readStlFloat(SubSeq(theData, 1, 4)),
     readStlFloat(SubSeq(theData, 5, 8)),
     readStlFloat(SubSeq(theData, 9, 12)) >>

\* As ReadInt32, with the four bytes taken in big-endian order.
ReadInt32_BigEndian(b) ==
  IF b[1] >= 128
  THEN (b[4] + 256 * b[3] + 65536 * b[2] + 16777216 * (b[1] - 128)) - 2147483647 - 1
  ELSE b[4] + 256 * b[3] + 65536 * b[2] + 16777216 * b[1]

\* As ReadInt32, with the top bit of the field dropped.
ReadInt32_Masked(b) == b[1] + 256 * b[2] + 65536 * b[3] + 16777216 * (b[4] % 128)

\* *(int32_t* )(aHeader + 80): four little-endian bytes as a signed
\* 32-bit integer.
ReadInt32(b) ==
  IF b[4] >= 128
  THEN (b[1] + 256 * b[2] + 65536 * b[3] + 16777216 * (b[4] - 128)) - 2147483647 - 1
  ELSE b[1] + 256 * b[2] + 65536 * b[3] + 16777216 * b[4]

----------------------------------------------------------------------------
(* std::istream, as Read and the block readers use it.  A stream state is  *)
(* the triple position, eofbit, failbit; good() is neither bit set.        *)

Good(e, f) == ~e /\ ~f

\* istream::read (buf, n): an unformatted input function.  Its sentry sets
\* failbit when the stream is not good; a read that finds fewer than n
\* bytes sets eofbit and failbit.
IStreamRead(s, p, e, f, n) ==
  IF ~Good(e, f)
  THEN [data |-> <<>>, gcount |-> 0, pos |-> p, eofbit |-> e, failbit |-> TRUE]
  ELSE LET got == Min(n, Len(s) - p) IN
       [data |-> SubSeq(s, p + 1, p + got), gcount |-> got, pos |-> p + got,
        eofbit |-> (got < n), failbit |-> (got < n)]

\* istream::tellg: its sentry sets failbit when the stream is not good, and
\* the result is then -1.
IStreamTellg(p, e, f) ==
  IF ~Good(e, f)
  THEN [at |-> -1, failbit |-> TRUE]
  ELSE [at |-> p, failbit |-> f]

isspace(c) == c \in 9..13 \/ c = 32
isalpha(c) == c \in 65..90 \/ c \in 97..122
isdigit(c) == c \in 48..57
tolower(c) == IF c \in 65..90 THEN c + 32 ELSE c

\* Index of the first byte at or after offset p that is not white space
\* (Len(s) when there is none).
SkipSpace(s, p) == IF p >= Len(s) THEN p ELSE ScanWhile(s, p, isspace)

\* aStream >> std::ws: the sentry sets failbit when the stream is not good;
\* otherwise white space is skipped, and eofbit is set when the skipping
\* reaches the end of the stream.
IStreamWs(s, p, e, f) ==
  IF ~Good(e, f)
  THEN [pos |-> p, eofbit |-> e, failbit |-> TRUE]
  ELSE LET q == SkipSpace(s, p) IN
       [pos |-> q, eofbit |-> (q = Len(s)), failbit |-> f]

\* Offset of the first line feed at or after offset p (Len(s) when none).
NotLF(c) == c # 10
FindLF(s, p) == IF p >= Len(s) THEN p ELSE ScanWhile(s, p, NotLF)

\* Standard_ReadLineBuffer::ReadLine: the next line without its line feed,
\* or NULL when no byte is left.  Reaching the end of the stream sets eofbit.
ReadLineTo(s, p, q) ==
  IF q < Len(s)
  THEN [isNull |-> FALSE, line |-> SubSeq(s, p + 1, q), pos |-> q + 1, eof |-> FALSE]
  ELSE [isNull |-> FALSE, line |-> SubSeq(s, p + 1, q), pos |-> q, eof |-> TRUE]

ReadLine(s, p) ==
  IF p >= Len(s)
  THEN [isNull |-> TRUE, line |-> <<>>, pos |-> p, eof |-> TRUE]
  ELSE ReadLineTo(s, p, FindLF(s, p))

----------------------------------------------------------------------------
(* Text decoding.  A line is a C string: reading past its last byte gives  *)
(* the terminating 0.                                                      *)

CharAt(str, i) == IF i \in 1..Len(str) THEN str[i] ELSE 0

\* As str_starts_with, but the word must stand at the start of the line in
\* the very letters of theWord (strncmp, no white space skipped).
str_starts_with_Exact(theStr, theWord, theN) ==
  \A i \in 1..theN : CharAt(theStr, i) = theWord[i]

\* str_starts_with: skip leading white space, then strncasecmp over theN
\* characters.
str_starts_with(theStr, theWord, theN) ==
  LET k == SkipSpace(theStr, 0) IN
  \A i \in 1..theN : tolower(CharAt(theStr, k + i)) = tolower(theWord[i])

\* Value of the decimal digits str[i..j-1], and the offset after a run of
\* digits that starts at offset i.
DigitsEnd(str, i) == IF i >= Len(str) THEN i ELSE ScanWhile(str, i, isdigit)

RECURSIVE DigitsVal(_, _, _)
DigitsVal(str, i, j) ==
  IF j <= i THEN 0 ELSE DigitsVal(str, i, j - 1) * 10 + (str[j] - 48)

\* Strtod: optional white space, optional sign, digits with an optional
\* '.' and fraction digits.  end = start when no number can be read.  The
\* value is in units; the fraction must be an exact multiple of the unit.
\* b..c are the integer digits, and c+1..d the fraction digits when d > c.
StrtodVal(str, start, neg, b, c, d) ==
  IF (c > b) \/ (d > c + 1)
  THEN [val |-> (IF neg THEN -1 ELSE 1)
                * (DigitsVal(str, b, c) * Unit
                   + IF d > c + 1
                     THEN (DigitsVal(str, c + 1, d) \div 5^(d - (c + 1)))
                          * 2^(27 - (d - (c + 1)))
                     ELSE 0),
        end |-> d]
  ELSE [val |-> 0, end |-> start]

StrtodFrac(str, start, neg, b, c) ==
  StrtodVal(str, start, neg, b, c,
            IF CharAt(str, c + 1) = 46 THEN DigitsEnd(str, c + 1) ELSE c)

StrtodSign(str, start, a) ==
  StrtodFrac(str, start, CharAt(str, a + 1) = 45,
             IF CharAt(str, a + 1) \in {43, 45} THEN a + 1 ELSE a,
             DigitsEnd(str, IF CharAt(str, a + 1) \in {43, 45} THEN a + 1 ELSE a))

Strtod(str, start) == StrtodSign(str, start, SkipSpace(str, start))

\* Offset after the leading run of white space and letters ('vertex').
SpaceOrAlpha(c) == isspace(c) \/ isalpha(c)
SkipWord(str, i) == IF i >= Len(str) THEN i ELSE ScanWhile(str, i, SpaceOrAlpha)

\* As ReadVertexZ, but the line is accepted when anything of it was
\* consumed (aEnd != theStr).
ReadVertexZ_AnyConsumed(rx, ry, rz) ==
  [ok |-> rz.end # 0, pnt |-> <<rx.val, ry.val, rz.val>>]

\* ReadVertex: three Strtod calls one after another; the line is accepted
\* when the third call consumed something (aEnd != aStr).
ReadVertexZ(rx, ry, rz) ==
  [ok |-> rz.end # ry.end, pnt |-> <<rx.val, ry.val, rz.val>>]

ReadVertexY(theStr, rx, ry) == ReadVertexZ(rx, ry, Strtod(theStr, ry.end))

ReadVertexX(theStr, rx) == ReadVertexY(theStr, rx, Strtod(theStr, rx.end))

ReadVertex(theStr) == ReadVertexX(theStr, Strtod(theStr, SkipWord(theStr, 0)))

----------------------------------------------------------------------------
(* Read and the block readers *)

Fail(text, by, line) == [text |-> text, by |-> by, line |-> line]

NodeCall(aPnt, anIndex, blk) ==
  [op |-> "AddNode", pnt |-> aPnt, idx |-> anIndex, n |-> <<>>, block |-> blk]
TriangleCall(n1, n2, n3, blk) ==
  [op |-> "AddTriangle", pnt |-> <<>>, idx |-> 0, n |-> <<n1, n2, n3>>, block |-> blk]

NoAdd == [pnt |-> <<>>, hit |-> FALSE, idx |-> 0, block |-> 0]

\* As IsTriangle, without the comparison of the third with the first index.
IsTriangle_TwoTests(n1, n2, n3) == n1 # n2 /\ n2 # n3

\* The test of both readers before AddTriangle.
IsTriangle(n1, n2, n3) == n1 # n2 /\ n2 # n3 /\ n3 # n1

\* As AfterBlock, but Read goes on with its loop whatever the block reader
\* returned.
AfterBlock_Continue(theMore) == "SkipWs"

\* As AfterBlock, but after a block reader returned false Read tests the
\* stream again in place of leaving its loop.
AfterBlock_Retry(theMore) == IF theMore THEN "SkipWs" ELSE "Loop"

\* Read, lines 197-200 and 204-207: where Read goes when a block reader
\* returned theMore: on to the white space after the block, or out of the
\* loop (break).
AfterBlock(theMore) == IF theMore THEN "SkipWs" ELSE "Return"

\* As Read_Open, without the test of aBuf.is_open().
Read_Open_Unchecked ==
  /\ pc = "Read"
  /\ theEnd' = Len(stream)
  /\ pc' = "Detect"
  /\ UNCHANGED <<streamVars, isAscii, probed, nbBlocks, result, sinkVars, binVars,
                 facetVars, asciiVars, progVars, cancel, msgs>>

\* Read, lines 165-177: open the file and take its length.
Read_Open ==
  /\ pc = "Read"
  /\ IF ~canOpen
     THEN /\ result' = FALSE
          /\ pc' = "done"
          /\ UNCHANGED theEnd
     ELSE /\ theEnd' = Len(stream)
          /\ pc' = "Detect"
          /\ UNCHANGED result
  /\ UNCHANGED <<streamVars, isAscii, probed, nbBlocks, sinkVars, binVars,
                 facetVars, asciiVars, progVars, cancel, msgs>>

\* What the reads of the file deliver: its bytes, or nothing when the
\* reads fail.  A failed read leaves the stream in a fail() state, as a
\* read of an empty stream does.
Delivered(s, err) == IF err THEN <<>> ELSE s

\* As IsAscii, but a failed probe read makes the format Binary.
IsAscii_FailBinary(s, p, e, f) ==
  LET r == IStreamRead(s, p, e, f, THE_STL_MIN_FILE_SIZE) IN
  IF r.failbit
  THEN [ascii |-> FALSE, failed |-> TRUE, pos |-> r.pos,
        eofbit |-> r.eofbit, failbit |-> TRUE]
  ELSE [ascii |-> IF r.gcount < THE_STL_MIN_FILE_SIZE THEN TRUE
                  ELSE \A i \in 1..r.gcount : ~(r.data[i] > TILDE),
        failed |-> FALSE, pos |-> r.pos - r.gcount,
        eofbit |-> r.eofbit, failbit |-> FALSE]

\* As IsAscii, but only the first 128 bytes of the probe are looked at.
IsAscii_First128(s, p, e, f) ==
  LET r == IStreamRead(s, p, e, f, THE_STL_MIN_FILE_SIZE) IN
  IF r.failbit
  THEN [ascii |-> TRUE, failed |-> TRUE, pos |-> r.pos,
        eofbit |-> r.eofbit, failbit |-> TRUE]
  ELSE [ascii |-> IF r.gcount < THE_STL_MIN_FILE_SIZE THEN TRUE
                  ELSE \A i \in 1..128 : ~(r.data[i] > TILDE),
        failed |-> FALSE, pos |-> r.pos - r.gcount,
        eofbit |-> r.eofbit, failbit |-> FALSE]

\* As IsAscii, without the unget loop that puts the probed bytes back.
IsAscii_NoRewind(s, p, e, f) ==
  LET r == IStreamRead(s, p, e, f, THE_STL_MIN_FILE_SIZE) IN
  IF r.failbit
  THEN [ascii |-> TRUE, failed |-> TRUE, pos |-> r.pos,
        eofbit |-> r.eofbit, failbit |-> TRUE]
  ELSE [ascii |-> IF r.gcount < THE_STL_MIN_FILE_SIZE THEN TRUE
                  ELSE \A i \in 1..r.gcount : ~(r.data[i] > TILDE),
        failed |-> FALSE, pos |-> r.pos,
        eofbit |-> r.eofbit, failbit |-> FALSE]

\* IsAscii: the probe of the first THE_STL_MIN_FILE_SIZE bytes.
IsAscii(s, p, e, f) ==
  LET r == IStreamRead(s, p, e, f, THE_STL_MIN_FILE_SIZE) IN
  IF r.failbit
  THEN [ascii |-> TRUE, failed |-> TRUE, pos |-> r.pos,
        eofbit |-> r.eofbit, failbit |-> TRUE]
  ELSE [ascii |-> IF r.gcount < THE_STL_MIN_FILE_SIZE THEN TRUE
                  ELSE \A i \in 1..r.gcount : ~(r.data[i] > TILDE),
        failed |-> FALSE, pos |-> r.pos - r.gcount,
        eofbit |-> r.eofbit, failbit |-> FALSE]

\* As ShortFile, but no file counts as short: IsAscii is always called.
ShortFile_Never(end) == FALSE

\* Whether Read decides the format without calling IsAscii.
ShortFile(end) == end < THE_STL_MIN_FILE_SIZE

\* Read, line 183: files shorter than 134 bytes are Ascii without probing.
Read_Detect ==
  /\ pc = "Detect"
  /\ IF ShortFile(theEnd)
     THEN /\ isAscii' = TRUE
          /\ UNCHANGED <<probed, pos, eofbit, failbit, msgs>>
     ELSE LET d == IsAscii(Delivered(stream, readError), pos, eofbit, failbit) IN
          /\ isAscii' = d.ascii
          /\ probed' = TRUE
          /\ pos' = d.pos
          /\ eofbit' = d.eofbit
          /\ failbit' = d.failbit
          /\ msgs' = IF d.failed
                     THEN Append(msgs, Fail("Cannot read file", "IsAscii", 0))
                     ELSE msgs
  /\ pc' = "Loop"
  /\ UNCHANGED <<stream, canOpen, readError, theEnd, nbBlocks, result, sinkVars, binVars,
                 facetVars, asciiVars, progVars, cancel>>

\* As Read_Loop, but the format is detected again from the bytes ahead
\* before every block.
Read_Loop_Redetect ==
  /\ pc = "Loop"
  /\ IF Good(eofbit, failbit)
     THEN /\ nbBlocks' = nbBlocks + 1
          /\ isAscii' = IF Len(stream) - pos < THE_STL_MIN_FILE_SIZE THEN TRUE
                        ELSE \A i \in 1..THE_STL_MIN_FILE_SIZE : stream[pos + i] <= TILDE
          /\ pc' = IF isAscii' THEN "ReadAscii" ELSE "ReadBinary"
     ELSE /\ pc' = "Return"
          /\ UNCHANGED <<nbBlocks, isAscii>>
  /\ UNCHANGED <<streamVars, theEnd, probed, result, sinkVars,
                 binVars, facetVars, asciiVars, progVars, cancel, msgs>>

\* Read, lines 193-208: the loop test and the dispatch to a block reader.
Read_Loop ==
  /\ pc = "Loop"
  /\ IF Good(eofbit, failbit)
     THEN /\ nbBlocks' = nbBlocks + 1
          /\ pc' = IF isAscii THEN "ReadAscii" ELSE "ReadBinary"
     ELSE /\ pc' = "Return"
          /\ UNCHANGED nbBlocks
  /\ UNCHANGED <<streamVars, theEnd, isAscii, probed, result, sinkVars,
                 binVars, facetVars, asciiVars, progVars, cancel, msgs>>

\* As Read_SkipWs, but white space is skipped after a text block only.
Read_SkipWs_TextOnly ==
  /\ pc = "SkipWs"
  /\ LET w == IStreamWs(stream, pos, eofbit, failbit) IN
       /\ pos' = IF isAscii THEN w.pos ELSE pos
       /\ eofbit' = IF isAscii THEN w.eofbit ELSE eofbit
       /\ failbit' = IF isAscii THEN w.failbit ELSE failbit
  /\ pc' = "Loop"
  /\ UNCHANGED <<stream, canOpen, readError, theEnd, isAscii, probed, nbBlocks, result,
                 sinkVars, binVars, facetVars, asciiVars, progVars, cancel, msgs>>

\* Read, line 209: aStream >> std::ws after a block that returned true.
Read_SkipWs ==
  /\ pc = "SkipWs"
  /\ LET w == IStreamWs(stream, pos, eofbit, failbit) IN
       /\ pos' = w.pos
       /\ eofbit' = w.eofbit
       /\ failbit' = w.failbit
  /\ pc' = "Loop"
  /\ UNCHANGED <<stream, canOpen, readError, theEnd, isAscii, probed, nbBlocks, result,
                 sinkVars, binVars, facetVars, asciiVars, progVars, cancel, msgs>>

\* As ReadResult, but Read returns true whatever the state of the stream.
ReadResult_True(f) == TRUE

\* The value Read returns at line 211.
ReadResult(f) == ~f

Read_Return ==
  /\ pc = "Return"
  /\ result' = ReadResult(failbit)
  /\ pc' = "done"
  /\ UNCHANGED <<streamVars, theEnd, isAscii, probed, nbBlocks, sinkVars,
                 binVars, facetVars, asciiVars, progVars, cancel, msgs>>

\* The owner of the progress scope requests cancellation.
Cancel ==
  /\ pc \notin {"Read", "done"}
  /\ ~cancel
  /\ cancel' = TRUE
  /\ UNCHANGED <<streamVars, readVars, sinkVars, binVars, facetVars,
                 asciiVars, progVars, msgs>>

----------------------------------------------------------------------------
(* ReadBinary *)

\* Lines 441-467: the 84-byte header, the facet count and the new merge tool.
ReadBinary_Header ==
  /\ pc = "ReadBinary"
  /\ LET r == IStreamRead(stream, pos, eofbit, failbit, THE_STL_HEADER_SIZE) IN
       /\ pos' = r.pos
       /\ eofbit' = r.eofbit
       /\ failbit' = r.failbit
       /\ IF r.gcount # THE_STL_HEADER_SIZE
          THEN /\ msgs' = Append(msgs, Fail("Corrupted binary STL file", "ReadBinary", 0))
               /\ pc' = AfterBlock(FALSE)
               /\ UNCHANGED <<myMap, blockFacets, binVars, progVars>>
          ELSE /\ aNbFacets' = ReadInt32(SubSeq(r.data, 81, 84))
               /\ myMap' = MergeNodeTool_New(myMap)
               /\ blockFacets' = <<>>
               /\ aNbSteps' = aNbFacets'
               /\ psSteps' = 0
               /\ UNCHANGED stepB
               /\ aNbFacetRead' = 0
               /\ aNbFacesInBuffer' = 0
               /\ aBuffer' = <<>>
               /\ aBufferPtr' = 0
               /\ pc' = "BinLoop"
               /\ UNCHANGED msgs
  /\ UNCHANGED <<stream, canOpen, readError, theEnd, isAscii, probed, nbBlocks, result,
                 sinkNodes, sinkCalls, lastAdd, aVertex, nodeIdx, asciiVars, cancel>>

\* As BinLoopTest, without the call of aPS.More().
BinLoopTest_NoPoll(nbFacetRead, nbFacets, more) == nbFacetRead < nbFacets

\* The loop condition of line 468: aNbFacetRead < aNbFacets && aPS.More().
BinLoopTest(nbFacetRead, nbFacets, more) == nbFacetRead < nbFacets /\ more

\* As ChunkFacets, with every chunk a whole buffer.
ChunkFacets_Whole(nbFacets, nbFacetRead) == THE_CHUNK_NBFACETS

\* As ChunkFacets, with chunks of one facet.
ChunkFacets_One(nbFacets, nbFacetRead) == Min(1, nbFacets - nbFacetRead)

\* Number of facets ReadBinary asks for when its buffer is empty.
ChunkFacets(nbFacets, nbFacetRead) == Min(THE_CHUNK_NBFACETS, nbFacets - nbFacetRead)

\* Lines 468-488: the loop test, the chunk read and the three points of the
\* next facet.
ReadBinary_Facet ==
  /\ pc = "BinLoop"
  /\ IF BinLoopTest(aNbFacetRead, aNbFacets, ~cancel)
     THEN IF aNbFacesInBuffer <= 0
          THEN LET nb == ChunkFacets(aNbFacets, aNbFacetRead)
                   r  == IStreamRead(stream, pos, eofbit, failbit, nb * aFaceDataLen)
               IN /\ pos' = r.pos
                  /\ eofbit' = r.eofbit
                  /\ failbit' = r.failbit
                  /\ aNbFacesInBuffer' = nb
                  /\ aBuffer' = r.data
                  /\ IF r.gcount # nb * aFaceDataLen
                     THEN /\ msgs' = Append(msgs, Fail("binary STL read failed", "ReadBinary", 0))
                          /\ pc' = AfterBlock(FALSE)
                          /\ UNCHANGED <<aBufferPtr, facetVars>>
                     ELSE /\ aBufferPtr' = 0
                          /\ aVertex' =
                               << readStlFloatVec3(SubSeq(r.data, aVec3Size + 1, 2 * aVec3Size)),
                                  readStlFloatVec3(SubSeq(r.data, 2 * aVec3Size + 1, 3 * aVec3Size)),
                                  readStlFloatVec3(SubSeq(r.data, 3 * aVec3Size + 1, 4 * aVec3Size)) >>
                          /\ nodeIdx' = <<>>
                          /\ blockFacets' = Append(blockFacets, aVertex')
                          /\ pc' = "AddNode"
                          /\ UNCHANGED msgs
          ELSE /\ aVertex' =
                    << readStlFloatVec3(SubSeq(aBuffer, aBufferPtr + aVec3Size + 1,
                                               aBufferPtr + 2 * aVec3Size)),
                       readStlFloatVec3(SubSeq(aBuffer, aBufferPtr + 2 * aVec3Size + 1,
                                               aBufferPtr + 3 * aVec3Size)),
                       readStlFloatVec3(SubSeq(aBuffer, aBufferPtr + 3 * aVec3Size + 1,
                                               aBufferPtr + 4 * aVec3Size)) >>
               /\ nodeIdx' = <<>>
               /\ blockFacets' = Append(blockFacets, aVertex')
               /\ pc' = "AddNode"
               /\ UNCHANGED <<pos, eofbit, failbit, aNbFacesInBuffer, aBuffer,
                              aBufferPtr, msgs>>
     ELSE \* return aPS.More()
          /\ pc' = AfterBlock(~cancel)
          /\ UNCHANGED <<pos, eofbit, failbit, aNbFacesInBuffer, aBuffer,
                         aBufferPtr, facetVars, msgs>>
  /\ UNCHANGED <<stream, canOpen, readError, theEnd, isAscii, probed, nbBlocks, result,
                 sinkVars, aNbFacets, aNbFacetRead, asciiVars, progVars, cancel>>

\* As AddNode, with the three calls of a facet made from the third vertex
\* to the first; each index still goes to the place of its vertex.
AddNode_LastFirst ==
  /\ pc = "AddNode"
  /\ LET aPnt == aVertex[3 - Len(nodeIdx)]
         r    == MergeNodeTool_AddNode(myMap, sinkNodes, aPnt)
     IN /\ myMap' = r.map
        /\ sinkNodes' = r.nodes
        /\ sinkCalls' = IF r.hit THEN sinkCalls
                        ELSE Append(sinkCalls, NodeCall(aPnt, r.idx, nbBlocks))
        /\ lastAdd' = [pnt |-> aPnt, hit |-> r.hit, idx |-> r.idx, block |-> nbBlocks]
        /\ nodeIdx' = <<r.idx>> \o nodeIdx
  /\ pc' = IF Len(nodeIdx) < 2 THEN "AddNode"
           ELSE IF isAscii THEN "AsciiEmit" ELSE "BinEmit"
  /\ UNCHANGED <<streamVars, theEnd, isAscii, probed, nbBlocks, result,
                 binVars, aVertex, blockFacets, asciiVars, progVars, cancel, msgs>>

\* As AddNode, but a facet with two identical points is dropped before its
\* nodes are registered.
AddNode_TrianglesOnly ==
  /\ pc = "AddNode"
  /\ LET aPnt == aVertex[Len(nodeIdx) + 1]
         r    == IF Cardinality({aVertex[1], aVertex[2], aVertex[3]}) = 3
                 THEN MergeNodeTool_AddNode(myMap, sinkNodes, aPnt)
                 ELSE [idx |-> 0, hit |-> TRUE, map |-> myMap, nodes |-> sinkNodes]
     IN /\ myMap' = r.map
        /\ sinkNodes' = r.nodes
        /\ sinkCalls' = IF r.hit THEN sinkCalls
                        ELSE Append(sinkCalls, NodeCall(aPnt, r.idx, nbBlocks))
        /\ lastAdd' = [pnt |-> aPnt, hit |-> r.hit, idx |-> r.idx, block |-> nbBlocks]
        /\ nodeIdx' = Append(nodeIdx, r.idx)
  /\ pc' = IF Len(nodeIdx) < 2 THEN "AddNode"
           ELSE IF isAscii THEN "AsciiEmit" ELSE "BinEmit"
  /\ UNCHANGED <<streamVars, theEnd, isAscii, probed, nbBlocks, result,
                 binVars, aVertex, blockFacets, asciiVars, progVars, cancel, msgs>>

\* Lines 491-493 and 404-406: one aMergeTool.AddNode call of the facet.
AddNode ==
  /\ pc = "AddNode"
  /\ LET aPnt == aVertex[Len(nodeIdx) + 1]
         r    == MergeNodeTool_AddNode(myMap, sinkNodes, aPnt)
     IN /\ myMap' = r.map
        /\ sinkNodes' = r.nodes
        /\ sinkCalls' = IF r.hit THEN sinkCalls
                        ELSE Append(sinkCalls, NodeCall(aPnt, r.idx, nbBlocks))
        /\ lastAdd' = [pnt |-> aPnt, hit |-> r.hit, idx |-> r.idx, block |-> nbBlocks]
        /\ nodeIdx' = Append(nodeIdx, r.idx)
  /\ pc' = IF Len(nodeIdx) < 2 THEN "AddNode"
           ELSE IF isAscii THEN "AsciiEmit" ELSE "BinEmit"
  /\ UNCHANGED <<streamVars, theEnd, isAscii, probed, nbBlocks, result,
                 binVars, aVertex, blockFacets, asciiVars, progVars, cancel, msgs>>

\* As ReadBinary_Emit, without the aPS.Next() of the loop increment.
ReadBinary_Emit_NoNext ==
  /\ pc = "BinEmit"
  /\ sinkCalls' = IF IsTriangle(nodeIdx[1], nodeIdx[2], nodeIdx[3])
                  THEN Append(sinkCalls,
                              TriangleCall(nodeIdx[1], nodeIdx[2], nodeIdx[3], nbBlocks))
                  ELSE sinkCalls
  /\ aNbFacetRead' = aNbFacetRead + 1
  /\ aNbFacesInBuffer' = aNbFacesInBuffer - 1
  /\ aBufferPtr' = aBufferPtr + aFaceDataLen
  /\ pc' = "BinLoop"
  /\ UNCHANGED <<streamVars, theEnd, isAscii, probed, nbBlocks, result, myMap,
                 sinkNodes, lastAdd, aNbFacets, aBuffer, facetVars, asciiVars,
                 progVars, cancel, msgs>>

\* As ReadBinary_Emit, without the increment expression of the for
\* statement: the same record is decoded again.
ReadBinary_Emit_NoIncrement ==
  /\ pc = "BinEmit"
  /\ sinkCalls' = IF IsTriangle(nodeIdx[1], nodeIdx[2], nodeIdx[3])
                  THEN Append(sinkCalls,
                              TriangleCall(nodeIdx[1], nodeIdx[2], nodeIdx[3], nbBlocks))
                  ELSE sinkCalls
  /\ pc' = "BinLoop"
  /\ UNCHANGED <<streamVars, theEnd, isAscii, probed, nbBlocks, result, myMap,
                 sinkNodes, lastAdd, binVars, facetVars, asciiVars,
                 progVars, cancel, msgs>>

\* Lines 494-497 and the loop increment of line 469.
ReadBinary_Emit ==
  /\ pc = "BinEmit"
  /\ sinkCalls' = IF IsTriangle(nodeIdx[1], nodeIdx[2], nodeIdx[3])
                  THEN Append(sinkCalls,
                              TriangleCall(nodeIdx[1], nodeIdx[2], nodeIdx[3], nbBlocks))
                  ELSE sinkCalls
  /\ aNbFacetRead' = aNbFacetRead + 1
  /\ aNbFacesInBuffer' = aNbFacesInBuffer - 1
  /\ aBufferPtr' = aBufferPtr + aFaceDataLen
  /\ psSteps' = psSteps + 1
  /\ pc' = "BinLoop"
  /\ UNCHANGED <<streamVars, theEnd, isAscii, probed, nbBlocks, result, myMap,
                 sinkNodes, lastAdd, aNbFacets, aBuffer, facetVars, asciiVars,
                 aNbSteps, stepB, cancel, msgs>>

----------------------------------------------------------------------------
(* ReadAscii *)

W_endsolid == <<101, 110, 100, 115, 111, 108, 105, 100>>
W_facet    == <<102, 97, 99, 101, 116>>
W_outer    == <<111, 117, 116, 101, 114>>

\* Standard_CLocaleSentry: its constructor makes "C" the numeric locale of
\* the thread and keeps the locale that was in force; its destructor puts
\* that locale back.
CLocaleSentry_New(cur) == [locale |-> "C", prev |-> cur]
CLocaleSentry_Delete(prev) == prev

\* As SAVE_TL, but the locale is kept only after "C" was set.
SAVE_TL_SetFirst(cur) == CLocaleSentry_New(CLocaleSentry_New(cur).locale)

\* SAVE_TL (), lines 262-269, the glibc branch: a Standard_CLocaleSentry
\* that lives to the end of ReadAscii.
SAVE_TL(cur) == CLocaleSentry_New(cur)

\* Lines 319-341: skip the header line "solid ...", then the merge tool, the
\* C locale and the progress scope of the block.
ReadAscii_Header ==
  /\ pc = "ReadAscii"
  /\ LET t == IStreamTellg(pos, eofbit, failbit)
         l == ReadLine(stream, pos)
     IN /\ pos' = l.pos
        /\ eofbit' = (eofbit \/ l.eof)
        /\ failbit' = t.failbit
        /\ aStartPos' = t.at
        /\ IF l.isNull
           THEN /\ msgs' = Append(msgs, Fail("premature end of file", "ReadAscii", 0))
                /\ pc' = AfterBlock(FALSE)
                /\ UNCHANGED <<myMap, blockFacets, aProgressPos, aNbLine, locale,
                               savedLocale, progVars>>
           ELSE /\ myMap' = MergeNodeTool_New(myMap)
                /\ blockFacets' = <<>>
                /\ savedLocale' = SAVE_TL(locale).prev
                /\ locale' = SAVE_TL(locale).locale
                /\ aNbSteps' = 1 + ((theEnd - t.at) \div stepB)
                /\ psSteps' = 0
                /\ aProgressPos' = t.at + stepB
                /\ UNCHANGED stepB
                /\ aNbLine' = 1
                /\ pc' = "AsciiLoop"
                /\ UNCHANGED msgs
  /\ UNCHANGED <<stream, canOpen, readError, theEnd, isAscii, probed, nbBlocks, result,
                 sinkNodes, sinkCalls, lastAdd, binVars, aVertex, nodeIdx, cancel>>

\* As VertexOf, but a missing line counts as an unreadable one.
VertexOf_EofBad(l, v) ==
  [kind |-> IF l.isNull \/ ~v.ok THEN "bad" ELSE "ok",
   pos |-> l.pos, eof |-> l.eof, pnt |-> v.pnt]

\* One vertex line (lines 379-391): the line l is missing, unreadable or a
\* point.
VertexOf(l, v) ==
  [kind |-> IF l.isNull THEN "eof" ELSE IF ~v.ok THEN "bad" ELSE "ok",
   pos |-> l.pos, eof |-> l.eof, pnt |-> v.pnt]

VertexLineOf(l) == VertexOf(l, ReadVertex(l.line))

VertexLine(s, p) == VertexLineOf(ReadLine(s, p))

Found(kind, p, eof, pnts) == [kind |-> kind, pos |-> p, eof |-> eof, pnts |-> pnts]

\* As FacetLines3, but a third vertex line that cannot be read leaves the
\* point at the origin and the facet goes on to the merge tool.
FacetLines3_Lenient(eof, v1, v2, v3) ==
  IF v3.kind = "eof"
  THEN Found("eofvertex", v3.pos, eof \/ v3.eof, <<>>)
  ELSE Found("facet", v3.pos, eof \/ v3.eof,
             <<v1.pnt, v2.pnt, IF v3.kind = "ok" THEN v3.pnt ELSE <<0, 0, 0>> >>)

\* Lines 351-399 on the stream at offset p: what one pass of the loop body
\* finds up to the three vertex lines, where it leaves the stream, and
\* whether a read reached the end of the stream.
FacetLines3(eof, v1, v2, v3) ==
  IF v3.kind = "ok"
  THEN Found("facet", v3.pos, eof \/ v3.eof, <<v1.pnt, v2.pnt, v3.pnt>>)
  ELSE Found(IF v3.kind = "eof" THEN "eofvertex" ELSE "badvertex",
             v3.pos, eof \/ v3.eof, <<>>)

FacetLines2(s, eof, v1, v2) ==
  IF v2.kind = "ok"
  THEN FacetLines3(eof \/ v2.eof, v1, v2, VertexLine(s, v2.pos))
  ELSE Found(IF v2.kind = "eof" THEN "eofvertex" ELSE "badvertex",
             v2.pos, eof \/ v2.eof, <<>>)

FacetLines1(s, eof, v1) ==
  IF v1.kind = "ok"
  THEN FacetLines2(s, eof \/ v1.eof, v1, VertexLine(s, v1.pos))
  ELSE Found(IF v1.kind = "eof" THEN "eofvertex" ELSE "badvertex",
             v1.pos, eof \/ v1.eof, <<>>)

\* As FacetLinesOuter, but the end of the stream where the outer loop line
\* is expected stops the block like the end at a vertex line.
FacetLinesOuter_EofStops(s, eof, l2) ==
  IF l2.isNull THEN Found("eofvertex", l2.pos, TRUE, <<>>)
  ELSE IF ~str_starts_with(l2.line, W_outer, 5)
  THEN Found("unexpected", l2.pos, eof \/ l2.eof, <<>>)
  ELSE FacetLines1(s, eof \/ l2.eof, VertexLine(s, l2.pos))

FacetLinesOuter(s, eof, l2) ==
  IF l2.isNull \/ ~str_starts_with(l2.line, W_outer, 5)
  THEN Found("unexpected", l2.pos, eof \/ l2.eof, <<>>)
  ELSE FacetLines1(s, eof \/ l2.eof, VertexLine(s, l2.pos))

\* As FacetLinesFacet, but the end of the stream where a facet line is
\* expected ends the block like an endsolid line.
FacetLinesFacet_EofStops(s, l1) ==
  IF l1.isNull THEN Found("endsolid", l1.pos, TRUE, <<>>)
  ELSE IF str_starts_with(l1.line, W_endsolid, 8)
  THEN Found("endsolid", l1.pos, l1.eof, <<>>)
  ELSE IF ~str_starts_with(l1.line, W_facet, 5)
  THEN Found("unexpected", l1.pos, l1.eof, <<>>)
  ELSE FacetLinesOuter(s, l1.eof, ReadLine(s, l1.pos))

FacetLinesFacet(s, l1) ==
  IF l1.isNull THEN Found("premature", l1.pos, TRUE, <<>>)
  ELSE IF str_starts_with(l1.line, W_endsolid, 8)
  THEN Found("endsolid", l1.pos, l1.eof, <<>>)
  ELSE IF ~str_starts_with(l1.line, W_facet, 5)
  THEN Found("unexpected", l1.pos, l1.eof, <<>>)
  ELSE FacetLinesOuter(s, l1.eof, ReadLine(s, l1.pos))

FacetLines(s, p) == FacetLinesFacet(s, ReadLine(s, p))

\* As AsciiLoopTest, without the call of aPS.More().
AsciiLoopTest_NoPoll(more) == TRUE

\* The loop condition of line 343: aPS.More().
AsciiLoopTest(more) == more

\* Lines 345-401 for one pass of the loop body: t is what tellg gives and r
\* what the lines of the facet are found to be.
ReadAscii_Pass(t, r) ==
  /\ failbit' = t.failbit
  /\ IF t.at > aProgressPos
     THEN /\ psSteps' = psSteps + 1
          /\ aProgressPos' = aProgressPos + stepB
     ELSE UNCHANGED <<psSteps, aProgressPos>>
  /\ pos' = r.pos
  /\ eofbit' = (eofbit \/ r.eof)
  /\ CASE r.kind = "premature" ->
            /\ msgs' = Append(msgs, Fail("premature end of file", "ReadAscii", 0))
            /\ pc' = AfterBlock(FALSE)
            /\ locale' = CLocaleSentry_Delete(savedLocale)
            /\ UNCHANGED <<aNbLine, facetVars>>
       [] r.kind = "unexpected" ->
            /\ msgs' = Append(msgs, Fail("unexpected format of facet",
                                         "ReadAscii", aNbLine + 1))
            /\ pc' = AfterBlock(FALSE)
            /\ locale' = CLocaleSentry_Delete(savedLocale)
            /\ UNCHANGED <<aNbLine, facetVars>>
       [] r.kind = "badvertex" ->
            /\ msgs' = Append(msgs, Fail("cannot read vertex co-ordinates",
                                         "ReadAscii", aNbLine))
            /\ pc' = AfterBlock(FALSE)
            /\ locale' = CLocaleSentry_Delete(savedLocale)
            /\ UNCHANGED <<aNbLine, facetVars>>
       [] r.kind \in {"endsolid", "eofvertex"} ->
            \* break, then return aPS.More(), which is true here
            /\ pc' = AfterBlock(~cancel)
            /\ locale' = CLocaleSentry_Delete(savedLocale)
            /\ UNCHANGED <<aNbLine, facetVars, msgs>>
       [] r.kind = "facet" ->
            /\ aNbLine' = aNbLine + 5
            /\ aVertex' = r.pnts
            /\ nodeIdx' = <<>>
            /\ blockFacets' = Append(blockFacets, r.pnts)
            /\ pc' = "AddNode"
            /\ UNCHANGED <<locale, msgs>>

\* Lines 343-401 and 418: the loop test, the progress step, the lines of one
\* facet up to its third vertex.  Every return restores the locale.
ReadAscii_Facet ==
  /\ pc = "AsciiLoop"
  /\ IF ~AsciiLoopTest(~cancel)
     THEN \* aPS.More() is false: leave the loop and return it
          /\ pc' = AfterBlock(~cancel)
          /\ locale' = CLocaleSentry_Delete(savedLocale)
          /\ UNCHANGED <<pos, eofbit, failbit, aProgressPos, aNbLine, psSteps,
                         facetVars, msgs>>
     ELSE ReadAscii_Pass(IStreamTellg(pos, eofbit, failbit), FacetLines(stream, pos))
  /\ UNCHANGED <<stream, canOpen, readError, theEnd, isAscii, probed, nbBlocks, result,
                 sinkVars, binVars, aStartPos, savedLocale, aNbSteps, stepB, cancel>>

\* Lines 407-415: the triangle, then the two lines "endloop" and "endfacet"
\* are read and not looked at.
ReadAscii_Emit ==
  /\ pc = "AsciiEmit"
  /\ sinkCalls' = IF IsTriangle(nodeIdx[1], nodeIdx[2], nodeIdx[3])
                  THEN Append(sinkCalls,
                              TriangleCall(nodeIdx[1], nodeIdx[2], nodeIdx[3], nbBlocks))
                  ELSE sinkCalls
  /\ LET l1 == ReadLine(stream, pos)
         l2 == ReadLine(stream, l1.pos)
     IN /\ pos' = l2.pos
        /\ eofbit' = (eofbit \/ l1.eof \/ l2.eof)
  /\ aNbLine' = aNbLine + 2
  /\ pc' = "AsciiLoop"
  /\ UNCHANGED <<stream, canOpen, readError, failbit, theEnd, isAscii, probed, nbBlocks,
                 result, myMap, sinkNodes, lastAdd, binVars, facetVars,
                 aStartPos, aProgressPos, locale, savedLocale, progVars,
                 cancel, msgs>>

----------------------------------------------------------------------------
(* The files Read is run on.  A facet is described by three points, a      *)
(* point by three coordinate codes:                                        *)
(*   0: 0.0   1: 0.5   2: 1.0   3: 2.0   4: -0.0   5: 0.5 + 2^-24          *)

MaxFacets == 2
MaxBlocks == 2

\* The little-endian bytes of the float a code stands for.
FloatBytes(c) ==
  CASE c = 0 -> <<0, 0, 0, 0>>
    [] c = 1 -> <<0, 0, 0, 63>>
    [] c = 2 -> <<0, 0, 128, 63>>
    [] c = 3 -> <<0, 0, 0, 64>>
    [] c = 4 -> <<0, 0, 0, 128>>
    [] c = 5 -> <<1, 0, 0, 63>>

\* The decimal text a code stands for: "0", "0.5", "1", "2.0".
DecText(c) ==
  CASE c = 0 -> <<48>>
    [] c = 1 -> <<48, 46, 53>>
    [] c = 2 -> <<49>>
    [] c = 3 -> <<50, 46, 48>>

K_T0  == << <<0, 0, 0>>, <<2, 0, 0>>, <<0, 2, 0>> >>
K_T1  == << <<0, 0, 2>>, <<2, 0, 2>>, <<0, 2, 2>> >>
K_Deg == << <<0, 0, 0>>, <<2, 0, 0>>, <<0, 0, 0>> >>
K_Lo  == << <<0, 0, 0>>, <<3, 0, 0>>, <<0, 3, 0>> >>
K_H   == << <<1, 0, 0>>, <<2, 0, 0>>, <<0, 2, 0>> >>
K_Hu  == << <<5, 0, 0>>, <<2, 0, 0>>, <<0, 2, 0>> >>
K_N0  == << <<4, 0, 0>>, <<3, 0, 0>>, <<0, 3, 0>> >>

BinKinds  == {K_T0, K_T1, K_Deg, K_Lo, K_H, K_Hu, K_N0}
TextKinds == {K_T0, K_T1, K_Deg, K_H}

FacetLists(kinds, n) == UNION {[1..m -> kinds] : m \in 0..n}

PointBytes(pt) == FloatBytes(pt[1]) \o FloatBytes(pt[2]) \o FloatBytes(pt[3])

\* A 50-byte facet record: normal, three points, attribute count.
FacetBytes(k) ==
  Rep(0, 12) \o PointBytes(k[1]) \o PointBytes(k[2]) \o PointBytes(k[3]) \o <<0, 0>>

\* A binary block: 80 header bytes, the count field, the facet records.
BinBlock(count, fs) ==
  Rep(0, 80) \o count \o Flatten([i \in 1..Len(fs) |-> FacetBytes(fs[i])])

Count32(n) == <<n % 256, (n \div 256) % 256, 0, 0>>

T_solid    == <<115, 111, 108, 105, 100, 32, 109>>
T_facet    == <<102, 97, 99, 101, 116, 32, 110, 111, 114, 109, 97, 108, 32, 48, 32, 48, 32, 49>>
T_outer    == <<32, 32, 79, 117, 116, 101, 114, 32, 108, 111, 111, 112>>
T_vertex   == <<32, 118, 101, 114, 116, 101, 120, 32>>
T_endloop  == <<101, 110, 100, 108, 111, 111, 112>>
T_endfacet == <<101, 110, 100, 102, 97, 99, 101, 116>>
T_endsolid == <<32, 69, 110, 100, 83, 111, 108, 105, 100, 32, 109>>
T_foo      == <<102, 111, 111>>
T_comma    == <<118, 101, 114, 116, 101, 120, 32, 49, 44, 53, 32, 50, 46, 48, 32, 51, 46, 48>>
T_two      == <<118, 101, 114, 116, 101, 120, 32, 49, 32, 50>>
T_ENDSOLID == <<69, 78, 68, 83, 79, 76, 73, 68>>
T_tabend   == <<9, 32, 101, 110, 100, 115, 111, 108, 105, 100, 120>>

VertexText(pt) ==
  T_vertex \o DecText(pt[1]) \o <<32>> \o DecText(pt[2]) \o <<32>> \o DecText(pt[3])

FacetText(k) ==
  <<T_facet, T_outer, VertexText(k[1]), VertexText(k[2]), VertexText(k[3]),
    T_endloop, T_endfacet>>

\* The lines of a text block.
TextBlock(fs) ==
  <<T_solid>> \o Flatten([i \in 1..Len(fs) |-> FacetText(fs[i])]) \o <<T_endsolid>>

\* Lines joined, each ended by a line feed.
Lines(ls) == Flatten([i \in 1..Len(ls) |-> ls[i] \o <<10>>])

SetByte(s, i, v) == [s EXCEPT ![i] = v]
ReplaceLine(ls, i, l) == [ls EXCEPT ![i] = l]
DropLast(s) == SubSeq(s, 1, Len(s) - 1)

Separators == {<<>>, <<32, 10>>}

\* Two to MaxBlocks blocks of one facet each, and the blocks of a file
\* joined with a separator after each.
BlockLists(kinds) == UNION {[1..m -> kinds] : m \in 2..MaxBlocks}

RECURSIVE Joined(_, _)
Joined(blocks, sep) ==
  IF blocks = <<>> THEN <<>>
  ELSE Head(blocks) \o sep \o Joined(Tail(blocks), sep)

\* Well-formed binary files of up to MaxBlocks blocks.
BinFiles ==
  {BinBlock(Count32(Len(fs)), fs) \o sep :
     fs \in FacetLists(BinKinds, MaxFacets), sep \in Separators}
  \cup {Joined([b \in 1..Len(ks) |-> BinBlock(Count32(1), <<ks[b]>>)], sep) :
          ks \in BlockLists({K_T0, K_Deg, K_H, K_Hu}), sep \in Separators}

\* Binary files whose count field disagrees with the records that follow,
\* and truncated ones.
BinOddFiles ==
  {BinBlock(Count32(Len(fs) + 1), fs) : fs \in FacetLists({K_T0, K_T1}, MaxFacets)}
  \cup {BinBlock(<<0, 0, 0, 128>>, <<k>>) : k \in {K_T0, K_Hu}}
  \cup {BinBlock(<<255, 255, 255, 255>>, <<k>>) : k \in {K_T0}}
  \cup {BinBlock(Count32(0), <<k>>) : k \in {K_T0}}
  \cup {SubSeq(BinBlock(Count32(2), <<K_T0, K_T1>>), 1, n) : n \in {40, 84, 134, 160}}
  \cup {BinBlock(Count32(1), <<K_T0>>) \o <<33>>}

\* Two binary blocks, the header of the second starting with a space or a
\* line feed.
SpaceHeaderFiles ==
  {BinBlock(Count32(1), <<K_T0>>) \o SetByte(BinBlock(Count32(1), <<K_T1>>), 1, b) :
     b \in {32, 10}}

\* Two blocks with low bytes only, and the same with one high byte.
ProbeFiles ==
  LET lo == BinBlock(Count32(1), <<K_Lo>>) \o BinBlock(Count32(1), <<K_N0>>) IN
  {SetByte(lo, i, 200) : i \in {1, 80, 133, 134, 135, 184}}

TextFiles ==
  {Lines(TextBlock(fs)) : fs \in FacetLists(TextKinds, MaxFacets)}
  \cup {DropLast(Lines(TextBlock(fs))) : fs \in FacetLists({K_T0}, MaxFacets)}
  \cup {Joined([b \in 1..Len(ks) |-> Lines(TextBlock(<<ks[b]>>))], sep) :
          ks \in BlockLists({K_T0, K_H}), sep \in Separators}

\* Text files with one line replaced, and text files cut after a line.
TextOddFiles ==
  LET ls == TextBlock(<<K_T0, K_T1>>) IN
  {Lines(ReplaceLine(ls, i, T_foo)) : i \in 1..Len(ls)}
  \cup {Lines(ReplaceLine(ls, i, l)) : i \in {4, 5, 6, 12}, l \in {T_comma, T_two}}
  \cup {Lines(ReplaceLine(ls, i, l)) : i \in {9, 16}, l \in {T_ENDSOLID, T_tabend}}
  \cup {Lines(SubSeq(ls, 1, i)) : i \in 0..(Len(ls) - 1)}
  \cup {DropLast(Lines(SubSeq(ls, 1, i))) : i \in {8, 11, 15}}

\* A text block followed by a binary block, and a binary block followed by
\* a text block.
MixedFiles ==
  {Lines(TextBlock(<<K_T0>>)) \o BinBlock(Count32(1), <<K_T1>>),
   BinBlock(Count32(1), <<K_T0>>) \o Lines(TextBlock(<<K_T1>>))}

\* The progress step of the scaled specification: 1 KiB for the 1 MiB of
\* aStepB.  The text reader uses the step in three places only (lines 338,
\* 340, 348), all of them sums or quotients of stream offsets, so a file of
\* n KiB read with this step makes the progress steps that the file with
\* every KiB of padding grown to a MiB makes with aStepB.
ScaledStepB == 1024

\* Text files with a header line of one and of two scaled steps of padding.
StepFiles ==
  {Lines(<<T_solid \o Rep(32, ScaledStepB)>> \o FacetText(K_T0) \o FacetText(K_T1)
         \o <<T_endsolid>>),
   Lines(<<T_solid \o Rep(32, 2 * ScaledStepB), T_endsolid>>)}

\* Facet lists of more than one chunk: a full chunk of THE_CHUNK_NBFACETS
\* facets and one facet more.
ChunkFacetList == [i \in 1..(THE_CHUNK_NBFACETS + 1) |-> IF i % 2 = 1 THEN K_T0 ELSE K_T1]

\* Binary files of two chunks: complete, and with a second chunk of two
\* declared facets of which one record is in the file.
ChunkFiles ==
  {BinBlock(Count32(THE_CHUNK_NBFACETS + 1), ChunkFacetList),
   BinBlock(Count32(THE_CHUNK_NBFACETS + 2), ChunkFacetList)}

\* The files whose reads may fail: one binary and one text file, both long
\* enough to be probed.
ErrorStreams == {BinBlock(Count32(1), <<K_T0>>), Lines(TextBlock(<<K_T0, K_T1>>))}

Streams ==
  BinFiles \cup BinOddFiles \cup SpaceHeaderFiles \cup ProbeFiles
  \cup TextFiles \cup TextOddFiles \cup MixedFiles \cup StepFiles \cup ChunkFiles

InitWith(step) ==
  /\ stepB = step
  /\ canOpen \in BOOLEAN
  /\ stream \in (IF canOpen THEN Streams ELSE {<<>>})
  /\ readError \in (IF stream \in ErrorStreams THEN BOOLEAN ELSE {FALSE})
  /\ pos = 0
  /\ eofbit = FALSE
  /\ failbit = FALSE
  /\ pc = "Read"
  /\ theEnd = 0
  /\ isAscii = FALSE
  /\ probed = FALSE
  /\ cancel = FALSE
  /\ nbBlocks = 0
  /\ myMap = <<>>
  /\ sinkNodes = <<>>
  /\ sinkCalls = <<>>
  /\ msgs = <<>>
  /\ result = "none"
  /\ aNbFacets = 0
  /\ aNbFacetRead = 0
  /\ aNbFacesInBuffer = 0
  /\ aBuffer = <<>>
  /\ aBufferPtr = 0
  /\ aVertex = <<>>
  /\ nodeIdx = <<>>
  /\ blockFacets = <<>>
  /\ lastAdd = NoAdd
  /\ aStartPos = 0
  /\ aProgressPos = 0
  /\ aNbLine = 0
  /\ aNbSteps = 0
  /\ psSteps = 0
  /\ locale = "user"
  /\ savedLocale = "user"

Init == InitWith(aStepB)

InitScaled == InitWith(ScaledStepB)

Next ==
  \/ Read_Open
  \/ Read_Detect
  \/ Read_Loop
  \/ Read_SkipWs
  \/ Read_Return
  \/ ReadBinary_Header
  \/ ReadBinary_Facet
  \/ ReadBinary_Emit
  \/ ReadAscii_Header
  \/ ReadAscii_Facet
  \/ ReadAscii_Emit
  \/ AddNode
  \/ Cancel

Spec == Init /\ [][Next]_vars

\* The same program with the scaled progress step.
SpecScaled == InitScaled /\ [][Next]_vars

\* The steps of Read itself: all but the cancellation request, which comes
\* from outside.
Program ==
  \/ Read_Open
  \/ Read_Detect
  \/ Read_Loop
  \/ Read_SkipWs
  \/ Read_Return
  \/ ReadBinary_Header
  \/ ReadBinary_Facet
  \/ ReadBinary_Emit
  \/ ReadAscii_Header
  \/ ReadAscii_Facet
  \/ ReadAscii_Emit
  \/ AddNode

\* The places of control.
PcValues ==
  {"Read", "Detect", "Loop", "ReadAscii", "ReadBinary", "BinLoop", "AddNode",
   "BinEmit", "AsciiLoop", "AsciiEmit", "SkipWs", "Return", "done"}

\* Control goes on to another place while Read has not returned.
Moves == pc # "done" /\ pc' \in PcValues

\* Read is one sequential call and none of its statements waits: while it
\* has not returned, the thread that runs it goes on to the next statement,
\* so control does not stay at one place for ever.  Nothing is assumed
\* about the cancellation request, which may come at any moment or never.
SpecFair == Init /\ [][Next]_vars /\ WF_pc(Moves)

----------------------------------------------------------------------------
(* Properties *)

NodeCallsOf(blk) ==
  {i \in 1..Len(sinkCalls) : sinkCalls[i].op = "AddNode" /\ sinkCalls[i].block = blk}
TriangleCallsOf(blk) ==
  {i \in 1..Len(sinkCalls) : sinkCalls[i].op = "AddTriangle" /\ sinkCalls[i].block = blk}
NodeCalls == {i \in 1..Len(sinkCalls) : sinkCalls[i].op = "AddNode"}
TriangleCalls == {i \in 1..Len(sinkCalls) : sinkCalls[i].op = "AddTriangle"}

\* A block reader sent a failure message (and so returned false).
HardFailure == \E i \in 1..Len(msgs) : msgs[i].by \in {"ReadAscii", "ReadBinary"}

InBlock == pc \in {"BinLoop", "BinEmit", "AsciiLoop", "AsciiEmit", "AddNode"}

\* C1: Read returns true if and only if no block reader reported a hard
\* failure: a run with a hard failure returns false, a run without one
\* (a cancelled run included) returns true.
C1_ReadTrueIffNoHardFailure ==
  (pc = "done" /\ canOpen /\ ~readError) => (result = ~HardFailure)

\* C2: every index passed to AddTriangle was returned by a sink AddNode call
\* made earlier in the same block.
C2_TriangleIndicesFromBlock ==
  \A i \in TriangleCalls : \A k \in 1..3 :
    \E j \in 1..(i - 1) :
      /\ sinkCalls[j].op = "AddNode"
      /\ sinkCalls[j].idx = sinkCalls[i].n[k]
      /\ sinkCalls[j].block = sinkCalls[i].block

\* A triangle of the second block, after the first block registered the
\* very points of that triangle.
C2_Witness ==
  \E i \in TriangleCallsOf(2) : \A k \in 1..3 :
    \E j \in NodeCallsOf(1), l \in NodeCallsOf(2) :
      /\ sinkCalls[l].idx = sinkCalls[i].n[k]
      /\ sinkCalls[j].pnt = sinkCalls[l].pnt

\* The step of a reader that follows the three AddNode calls of a facet.
EmitStep == pc \in {"BinEmit", "AsciiEmit"} /\ pc' # pc

\* C3: in both readers a triangle is emitted exactly when the three resolved
\* indices of the facet are pairwise distinct; a facet with two equal
\* indices makes no sink call and no failure message, and no AddTriangle
\* call ever has two equal indices.
C3_TriangleIffDistinct ==
  /\ [][EmitStep =>
          /\ msgs' = msgs
          /\ IF Cardinality({nodeIdx[1], nodeIdx[2], nodeIdx[3]}) = 3
             THEN sinkCalls' = Append(sinkCalls,
                    TriangleCall(nodeIdx[1], nodeIdx[2], nodeIdx[3], nbBlocks))
             ELSE sinkCalls' = sinkCalls]_vars
  /\ [][Len(sinkCalls') > Len(sinkCalls) /\ sinkCalls'[Len(sinkCalls')].op = "AddTriangle"
          => EmitStep]_vars
  /\ [](\A i \in TriangleCalls : Cardinality({sinkCalls[i].n[k] : k \in 1..3}) = 3)

\* A facet whose first and third vertex resolved to one index was dropped:
\* the reader is back at its loop and the last sink call is no triangle.
C3_Witness ==
  /\ pc \in {"BinLoop", "AsciiLoop"}
  /\ Len(nodeIdx) = 3
  /\ nodeIdx[1] = nodeIdx[3] /\ nodeIdx[1] # nodeIdx[2]
  /\ sinkCalls # <<>>
  /\ sinkCalls[Len(sinkCalls)].op = "AddNode"
  /\ msgs = <<>>

Distinct3(f) == ~IsEqual(f[1], f[2]) /\ ~IsEqual(f[2], f[3]) /\ ~IsEqual(f[3], f[1])

\* C4: a block whose facets all reuse the same three points, within
\* tolerance, makes exactly three node registrations, however many facets
\* it has.
C4_SameFacetsThreeNodes ==
  ( /\ pc \in {"BinLoop", "AsciiLoop"}
    /\ blockFacets # <<>>
    /\ Distinct3(blockFacets[1])
    /\ \A i \in 1..Len(blockFacets) : \A k \in 1..3 :
         IsEqual(blockFacets[i][k], blockFacets[1][k]) )
  => Cardinality(NodeCallsOf(nbBlocks)) = 3

\* One call of MergeNodeTool::AddNode.
AddNodeStep == pc = "AddNode" /\ Len(nodeIdx') = Len(nodeIdx) + 1

\* C5: AddNode (p) returns the index cached for an earlier point q of the
\* block, and registers nothing, whenever p and q are within tolerance.
C5_TolerantLookup ==
  [][AddNodeStep =>
       LET p == aVertex[Len(nodeIdx) + 1] IN
       (\E e \in 1..Len(myMap) : IsEqual(p, myMap[e].pnt))
       => /\ sinkCalls' = sinkCalls
          /\ \E e \in 1..Len(myMap) :
               /\ IsEqual(p, myMap[e].pnt)
               /\ nodeIdx'[Len(nodeIdx')] = myMap[e].idx]_vars

Entries(map) == {map[e] : e \in 1..Len(map)}

\* C6: on a miss AddNode makes exactly one sink AddNode call, stores the
\* index it returned under the point and returns it; on a hit it returns
\* the stored index, makes no sink call and leaves the table as it is.
C6_AddNodeMissAndHit ==
  [][AddNodeStep =>
       LET p   == aVertex[Len(nodeIdx) + 1]
           ret == nodeIdx'[Len(nodeIdx')]
       IN IF lastAdd'.hit
          THEN /\ sinkCalls' = sinkCalls
               /\ sinkNodes' = sinkNodes
               /\ myMap' = myMap
               /\ \E e \in Entries(myMap) : e.idx = ret /\ IsEqual(e.pnt, p)
          ELSE /\ sinkCalls' = Append(sinkCalls, NodeCall(p, ret, nbBlocks))
               /\ sinkNodes' = Append(sinkNodes, p)
               /\ ret = Len(sinkNodes')
               /\ Entries(myMap') = Entries(myMap) \cup {[pnt |-> p, idx |-> ret]}
               /\ Len(myMap') = Len(myMap) + 1]_vars

\* A hit in a block whose table holds three points.
C6_Witness ==
  /\ lastAdd.hit
  /\ lastAdd.block = nbBlocks
  /\ InBlock
  /\ Len(myMap) = 3
  /\ Cardinality(NodeCallsOf(nbBlocks)) = 3

\* C7: the table of a block starts empty and holds nothing of an earlier
\* block: every AddNode call resolves to a node registered in its own
\* block, so a point that occurs in two blocks is registered in each of
\* them, and once only in each.
C7_TablePerBlock ==
  /\ (InBlock /\ blockFacets = <<>>) => myMap = <<>>
  /\ InBlock =>
       \A e \in Entries(myMap) : \E i \in NodeCallsOf(nbBlocks) :
         sinkCalls[i].idx = e.idx /\ sinkCalls[i].pnt = e.pnt
  /\ lastAdd.block # 0 =>
       \E i \in NodeCallsOf(lastAdd.block) :
         sinkCalls[i].idx = lastAdd.idx /\ IsEqual(sinkCalls[i].pnt, lastAdd.pnt)
  /\ \A i, j \in NodeCalls :
       (i # j /\ sinkCalls[i].block = sinkCalls[j].block)
       => sinkCalls[i].pnt # sinkCalls[j].pnt

\* One point registered in the first and again in the second block.
C7_Witness ==
  \E i \in NodeCallsOf(1), j \in NodeCallsOf(2) :
    /\ sinkCalls[i].pnt = sinkCalls[j].pnt
    /\ sinkCalls[i].idx # sinkCalls[j].idx

\* The number of facet records of a file that is a header and records.
FileFacets == (Len(stream) - THE_STL_HEADER_SIZE) \div THE_STL_SIZEOF_FACET

\* The file is one binary block: header, count field C, exactly C records.
WellFormedBinary ==
  /\ Len(stream) >= THE_STL_HEADER_SIZE
  /\ (Len(stream) - THE_STL_HEADER_SIZE) % THE_STL_SIZEOF_FACET = 0
  /\ SubSeq(stream, 81, 84) = Count32(FileFacets)

\* The twelve bytes of vertex k of record f.
VertexField(f, k) ==
  SubSeq(stream, THE_STL_HEADER_SIZE + THE_STL_SIZEOF_FACET * (f - 1) + 12 * k + 1,
                 THE_STL_HEADER_SIZE + THE_STL_SIZEOF_FACET * (f - 1) + 12 * k + 12)

FileVertices == (1..FileFacets) \X (1..3)

VertexBytesDistinct ==
  \A v, w \in FileVertices : v # w => VertexField(v[1], v[2]) # VertexField(w[1], w[2])

VerticesApart ==
  \A v, w \in FileVertices :
    v # w => ~IsEqual(readStlFloatVec3(VertexField(v[1], v[2])),
                      readStlFloatVec3(VertexField(w[1], w[2])))

HighByteInProbe == \E i \in 1..THE_STL_MIN_FILE_SIZE : stream[i] > 126

\* C8 as stated: Read on a well-formed binary file with count C and C
\* facets of distinct vertices, whatever their bytes, makes C AddTriangle
\* and 3C AddNode calls and returns true (the run not being cancelled).
C8_WellFormedBinaryCounts_Any ==
  (pc = "done" /\ canOpen /\ ~readError /\ ~cancel /\ WellFormedBinary
   /\ VertexBytesDistinct)
  => /\ Cardinality(TriangleCalls) = FileFacets
     /\ Cardinality(NodeCalls) = 3 * FileFacets
     /\ result = TRUE

\* C8, amended: Read on a well-formed binary file with count C and C facets
\* that format detection takes for binary (a byte above 0x7E among the
\* first 134) and whose vertices are pairwise not within the merge
\* tolerance makes, when not cancelled, C AddTriangle and 3C AddNode calls
\* and returns true.
C8_WellFormedBinaryCounts ==
  ( /\ pc = "done" /\ canOpen /\ ~readError /\ ~cancel
    /\ WellFormedBinary
    /\ Len(stream) >= THE_STL_MIN_FILE_SIZE
    /\ HighByteInProbe
    /\ VerticesApart )
  => /\ Cardinality(TriangleCalls) = FileFacets
     /\ Cardinality(NodeCalls) = 3 * FileFacets
     /\ result = TRUE

\* The two unit triangles at z = 0 and z = 1: six nodes, two triangles.
C8_Witness ==
  /\ pc = "done" /\ canOpen /\ ~cancel
  /\ WellFormedBinary
  /\ Len(stream) >= THE_STL_MIN_FILE_SIZE
  /\ HighByteInProbe
  /\ VerticesApart
  /\ FileFacets = 2
  /\ Cardinality(NodeCalls) = 6
  /\ Cardinality(TriangleCalls) = 2
  /\ result = TRUE

C10_ShortIsTextUnprobed ==
  (canOpen /\ pc \notin {"Read", "Detect"} /\ Len(stream) < 134)
  => /\ isAscii
     /\ ~probed
     /\ (pc = "Loop" /\ nbBlocks = 0) => (pos = 0 /\ ~eofbit /\ ~failbit)
     /\ \A i \in 1..Len(msgs) : msgs[i].by # "IsAscii"

\* A non-empty short stream right after detection.
C10_Witness ==
  /\ pc = "Loop" /\ nbBlocks = 0
  /\ Len(stream) \in 1..133
  /\ isAscii /\ ~probed
  /\ pos = 0 /\ ~eofbit /\ ~failbit

\* C11: after a successful probe the stream is where it was before the
\* probe: detection leaves it good and at offset 0, the text reader starts
\* at offset 0, the binary reader takes its count from bytes 80..83 and its
\* first facet from the record at offset 84.
C11_ProbeRewinds ==
  (probed /\ \A i \in 1..Len(msgs) : msgs[i].by # "IsAscii")
  => /\ (pc = "Loop" /\ nbBlocks = 0) => (pos = 0 /\ ~eofbit /\ ~failbit)
     /\ (pc = "AsciiLoop" /\ nbBlocks = 1) => aStartPos = 0
     /\ (pc = "BinLoop" /\ nbBlocks = 1)
          => aNbFacets = ReadInt32(SubSeq(stream, 81, 84))
     /\ (pc = "BinLoop" /\ nbBlocks = 1 /\ aBuffer = <<>>)
          => pos = THE_STL_HEADER_SIZE
     /\ (pc = "AddNode" /\ nbBlocks = 1 /\ ~isAscii /\ Len(blockFacets) = 1)
          => aVertex = << readStlFloatVec3(SubSeq(stream, 97, 108)),
                          readStlFloatVec3(SubSeq(stream, 109, 120)),
                          readStlFloatVec3(SubSeq(stream, 121, 132)) >>

\* The binary reader at the first facet of a probed stream, its points
\* those of the record at offset 84.
C11_Witness ==
  /\ probed
  /\ msgs = <<>>
  /\ pc = "AddNode" /\ nbBlocks = 1 /\ ~isAscii
  /\ Len(blockFacets) = 1
  /\ nodeIdx = <<>>
  /\ aVertex[2] = readStlFloatVec3(SubSeq(stream, 109, 120))
  /\ aVertex[2] # <<0, 0, 0>>

\* The text block of the two unit triangles: line 1 is the header, lines
\* 2..8 and 9..15 are the facets, line 16 is the endsolid line.
SampleLines == TextBlock(<<K_T0, K_T1>>)

\* The sample cut after its first i lines.
CutAfter(i) == Lines(SubSeq(SampleLines, 1, i))

\* Some failure message was sent with the given text.
Sent(text) == \E i \in 1..Len(msgs) : msgs[i].text = text /\ msgs[i].by = "ReadAscii"

Rest == SubSeq(stream, pos + 1, Len(stream))

\* The rest of the stream is a facet line, an outer loop line and j < 3
\* vertex lines: the stream ends where a vertex line is expected.
EndsAtVertex ==
  \E k \in TextKinds : \E j \in 0..2 :
    Rest = Lines(<<T_facet, T_outer>> \o [v \in 1..j |-> VertexText(k[v])])

\* C13: when the stream ends where a vertex line is expected, the text
\* reader stops without a failure message and returns true (Read goes on
\* to the white space after the block); no sink call is made or undone.
C13_EofAtVertexStops ==
  /\ [][(pc = "AsciiLoop" /\ pc' # pc /\ ~cancel /\ EndsAtVertex)
          => /\ pc' = "SkipWs"
             /\ msgs' = msgs
             /\ sinkCalls' = sinkCalls
             /\ sinkNodes' = sinkNodes
             /\ pos' = Len(stream)]_vars
  /\ [](\A i \in {3, 4, 5, 10, 11, 12} :
          (pc = "done" /\ ~cancel /\ stream = CutAfter(i))
          => /\ msgs = <<>>
             /\ nbBlocks = 1
             /\ Cardinality(TriangleCalls) = (i - 1) \div 7
             /\ Cardinality(NodeCalls) = 3 * ((i - 1) \div 7))

\* The text reader has stopped at the missing third vertex line of the
\* second facet; the triangle of the first facet is with the sink.
C13_Witness ==
  /\ pc = "SkipWs"
  /\ stream = CutAfter(11)
  /\ pos = Len(stream)
  /\ msgs = <<>>
  /\ Cardinality(TriangleCalls) = 1
  /\ Len(blockFacets) = 1

\* The last message sent, when it came from the text reader.
LastSent(text) ==
  /\ msgs # <<>>
  /\ msgs[Len(msgs)].text = text
  /\ msgs[Len(msgs)].by = "ReadAscii"

\* C14: when the stream ends at a required line other than a vertex line,
\* the text reader sends a failure message and returns false: at the
\* header line and at a facet/endsolid position "premature end of file",
\* at the outer loop line "unexpected format of facet"; a missing endloop
\* or endfacet line is passed over and the failure comes at the facet
\* position that follows.
C14_EofAtRequiredLineFails ==
  /\ [][(pc = "ReadAscii" /\ pc' # pc /\ Rest = <<>>)
          => /\ msgs' = Append(msgs, Fail("premature end of file", "ReadAscii", 0))
             /\ pc' = "Return"]_vars
  /\ [][(pc = "AsciiLoop" /\ pc' # pc /\ ~cancel /\ Rest = <<>>)
          => /\ msgs' = Append(msgs, Fail("premature end of file", "ReadAscii", 0))
             /\ pc' = "Return"]_vars
  /\ [][(pc = "AsciiLoop" /\ pc' # pc /\ ~cancel /\ Rest = Lines(<<T_facet>>))
          => /\ LastSent("unexpected format of facet")'
             /\ Len(msgs') = Len(msgs) + 1
             /\ pc' = "Return"]_vars
  /\ [][(pc = "AsciiEmit" /\ pc' # pc /\ Rest \in {<<>>, Lines(<<T_endloop>>)})
          => /\ pc' = "AsciiLoop"
             /\ msgs' = msgs
             /\ Rest' = <<>>]_vars
  /\ [](\A i \in {0, 1, 2, 6, 7, 8, 9, 13, 14, 15} :
          (pc = "done" /\ canOpen /\ ~cancel /\ stream = CutAfter(i))
          => /\ Len(msgs) = 1
             /\ nbBlocks = 1
             /\ IF i \in {2, 9}
                THEN LastSent("unexpected format of facet")
                ELSE LastSent("premature end of file")
             /\ Cardinality(TriangleCalls) = (i + 1) \div 7)

\* The sample cut before the outer loop line of its second facet: the
\* reader failed there, after the triangle of the first facet.
C14_Witness ==
  /\ pc = "Return"
  /\ ~cancel
  /\ stream = CutAfter(9)
  /\ LastSent("unexpected format of facet")
  /\ Cardinality(TriangleCalls) = 1

\* The sample with its line i replaced by the line "foo".
FooAt(i) == Lines(ReplaceLine(SampleLines, i, T_foo))

\* C15: a text block with a line that does not start with the keyword of
\* its position (solid, facet, outer, vertex, endloop, endfacet, endsolid)
\* is not accepted: the text reader sends a failure message and returns
\* false.
C15_WrongKeywordFails ==
  \A i \in 1..Len(SampleLines) :
    (pc = "done" /\ canOpen /\ ~cancel /\ stream = FooAt(i))
    => HardFailure

\* The value, in units, of a coordinate code.
CodeVal(c) ==
  CASE c = 0 -> 0
    [] c = 1 -> Unit \div 2
    [] c = 2 -> Unit
    [] c = 3 -> 2 * Unit
    [] c = 4 -> 0
    [] c = 5 -> Unit \div 2 + 8

PointVal(pt) == <<CodeVal(pt[1]), CodeVal(pt[2]), CodeVal(pt[3])>>

StartsWith(s, t) == Len(s) >= Len(t) /\ SubSeq(s, 1, Len(t)) = t

\* Vertex lines without three numbers: "vertex 1,5 2.0 3.0", "vertex 1 2"
\* and "foo".
BadVertexLines == {T_comma, T_two, T_foo}

\* The stream goes on with a facet line, an outer loop line, j < 3 good
\* vertex lines and then a line without three numbers.
BadVertexAhead ==
  \E k \in TextKinds : \E j \in 0..2 : \E bad \in BadVertexLines :
    StartsWith(Rest, Lines(<<T_facet, T_outer>>
                           \o [v \in 1..j |-> VertexText(k[v])] \o <<bad>>))

\* The stream goes on with a facet line, an outer loop line and the three
\* vertex lines of the points of k.
GoodFacetAhead(k) ==
  StartsWith(Rest, Lines(<<T_facet, T_outer, VertexText(k[1]), VertexText(k[2]),
                           VertexText(k[3])>>))

\* C16: a vertex line is accepted only when three decimal numbers can be
\* read from it one after another; a line such as "vertex 1,5 2.0 3.0", or
\* one with fewer than three numbers, makes the text reader send a failure
\* and return false, and no node is registered from the facet.  An accepted
\* facet has three lines of three numbers, read with their values.
C16_VertexNeedsThreeNumbers ==
  /\ [][(pc = "AsciiLoop" /\ pc' # pc /\ ~cancel /\ BadVertexAhead)
          => /\ LastSent("cannot read vertex co-ordinates")'
             /\ Len(msgs') = Len(msgs) + 1
             /\ pc' = "Return"
             /\ sinkCalls' = sinkCalls
             /\ sinkNodes' = sinkNodes
             /\ blockFacets' = blockFacets]_vars
  /\ [][(pc = "AsciiLoop" /\ pc' = "AddNode")
          => \E k \in TextKinds :
               /\ GoodFacetAhead(k)
               /\ aVertex' = <<PointVal(k[1]), PointVal(k[2]), PointVal(k[3])>>]_vars

\* The sample with "vertex 1,5 2.0 3.0" as second vertex of its second
\* facet: the reader failed there, with the three nodes of the first facet
\* the only ones registered.
C16_Witness ==
  /\ pc = "Return"
  /\ ~cancel
  /\ stream = Lines(ReplaceLine(SampleLines, 12, T_comma))
  /\ LastSent("cannot read vertex co-ordinates")
  /\ Cardinality(NodeCalls) = 3
  /\ Len(blockFacets) = 1

\* C17: cancellation is no error.  A block reader that finds the progress
\* scope cancelled at its loop test returns false without a message and
\* without a sink call; Read then starts no further block and returns as
\* after a clean stop: true when the stream has not failed.
C17_CancelIsNoError ==
  /\ [][(cancel /\ pc \in {"BinLoop", "AsciiLoop"} /\ pc' # pc)
          => /\ pc' = "Return"
             /\ msgs' = msgs
             /\ sinkCalls' = sinkCalls
             /\ sinkNodes' = sinkNodes
             /\ pos' = pos
             /\ failbit' = failbit]_vars
  /\ [][pc = "Return"
          => /\ nbBlocks' = nbBlocks
             /\ sinkCalls' = sinkCalls
             /\ (pc' # pc => (pc' = "done" /\ result' = ~failbit))]_vars
  /\ []((pc = "done" /\ cancel /\ ~isAscii /\ msgs = <<>>) => result = TRUE)
  /\ []((pc = "done" /\ cancel /\ ~failbit) => result = TRUE)

\* A binary read cancelled between the two facets of its block: one
\* triangle delivered, no message, the rest of the stream unread, true.
C17_Witness ==
  /\ pc = "done"
  /\ cancel
  /\ ~isAscii
  /\ nbBlocks = 1
  /\ aNbFacets = 2 /\ aNbFacetRead = 1
  /\ Cardinality(TriangleCalls) = 1
  /\ msgs = <<>>
  /\ result = TRUE

\* One to MaxBlocks blocks of one facet each.
KBlockLists(kinds) == UNION {[1..m -> kinds] : m \in 1..MaxBlocks}

\* Files of k well-formed blocks of one format, with the facet of each
\* block: binary blocks (also with a header that starts with a space or a
\* line feed) and text blocks, joined with or without white space.
MultiBlockFiles ==
  {[bytes |-> Joined([b \in 1..Len(ks) |-> BinBlock(Count32(1), <<ks[b]>>)], sep),
    ks |-> ks] : ks \in KBlockLists({K_T0, K_Deg, K_H, K_Hu}), sep \in Separators}
  \cup {[bytes |-> BinBlock(Count32(1), <<K_T0>>)
                   \o SetByte(BinBlock(Count32(1), <<K_T1>>), 1, b),
         ks |-> <<K_T0, K_T1>>] : b \in {32, 10}}
  \cup {[bytes |-> Joined([b \in 1..Len(ks) |-> Lines(TextBlock(<<ks[b]>>))], sep),
         ks |-> ks] : ks \in KBlockLists({K_T0, K_H}), sep \in Separators}

\* The points the sink was given in block b.
PointsOf(b) == {sinkCalls[i].pnt : i \in NodeCallsOf(b)}

\* C18: for a stream of k >= 1 well-formed blocks of the detected format,
\* joined with or without white space, Read runs the block reader k times,
\* delivers the nodes and the triangle of each block, in stream order, and
\* returns true.
C18_AllBlocksDelivered ==
  (pc = "done" /\ canOpen /\ ~readError /\ ~cancel)
  => \A f \in MultiBlockFiles :
       stream = f.bytes
       => /\ nbBlocks = Len(f.ks)
          /\ result = TRUE
          /\ msgs = <<>>
          /\ \A b \in 1..Len(f.ks) :
               /\ PointsOf(b) = {PointVal(f.ks[b][v]) : v \in 1..3}
               /\ Cardinality(TriangleCallsOf(b)) = IF f.ks[b] = K_Deg THEN 0 ELSE 1
          /\ \A i, j \in 1..Len(sinkCalls) :
               i < j => sinkCalls[i].block <= sinkCalls[j].block

IsPrefix(s, t) == Len(s) <= Len(t) /\ SubSeq(t, 1, Len(s)) = s

\* C19: once a block reader has reported a hard failure, Read makes no
\* further sink call and starts no further block; what the sink was given
\* before is never taken back or sent again: the calls made only grow at
\* their end, and the step that reports the failure makes no sink call and
\* takes Read out of its loop.
C19_FailureStopsRead ==
  /\ [][HardFailure
          => /\ sinkCalls' = sinkCalls
             /\ sinkNodes' = sinkNodes
             /\ nbBlocks' = nbBlocks
             /\ msgs' = msgs
             /\ pc' \in {"Return", "done"}]_vars
  /\ [][(~HardFailure /\ HardFailure')
          => /\ sinkCalls' = sinkCalls
             /\ sinkNodes' = sinkNodes
             /\ pc' = "Return"]_vars
  /\ [][IsPrefix(sinkCalls, sinkCalls') /\ IsPrefix(sinkNodes, sinkNodes')]_vars

\* The sample with "foo" for the facet line of its second facet, read to
\* the end: the triangle of the first facet delivered, the failure sent,
\* the rest of the stream unread and the stream still good.
C19_Witness ==
  /\ pc = "done"
  /\ stream = FooAt(9)
  /\ HardFailure
  /\ nbBlocks = 1
  /\ Cardinality(TriangleCalls) = 1
  /\ Cardinality(NodeCalls) = 3
  /\ pos < Len(stream)
  /\ ~eofbit /\ ~failbit

\* C20: when the file cannot be opened Read returns false at once: no
\* length is taken, no format detection, no block reader, no sink call and
\* no message.
C20_OpenFailureReturnsFalse ==
  ~canOpen
  => /\ pc \in {"Read", "done"}
     /\ (pc = "done" => result = FALSE)
     /\ nbBlocks = 0
     /\ ~probed /\ isAscii = FALSE /\ theEnd = 0
     /\ pos = 0 /\ ~eofbit /\ ~failbit
     /\ sinkCalls = <<>> /\ sinkNodes = <<>>
     /\ msgs = <<>>

\* Read has returned false on a file that cannot be opened.
C20_Witness ==
  /\ ~canOpen
  /\ pc = "done"
  /\ result = FALSE
  /\ nbBlocks = 0

----------------------------------------------------------------------------
(* The chunk reads of ReadBinary *)

SentBy(text, by) == \E i \in 1..Len(msgs) : msgs[i].text = text /\ msgs[i].by = by

\* The binary reader is at its loop test with an empty buffer, facets still
\* to read, and fewer bytes left in the stream than the chunk it asks for.
ShortChunkAhead ==
  /\ pc = "BinLoop"
  /\ ~cancel
  /\ aNbFacetRead < aNbFacets
  /\ aNbFacesInBuffer <= 0
  /\ Len(stream) - pos < ChunkFacets(aNbFacets, aNbFacetRead) * THE_STL_SIZEOF_FACET

\* C21: in the binary reader a chunk read that returns fewer bytes than
\* requested before the declared facet count is reached sends the failure
\* "binary STL read failed" and returns false, without a sink call for the
\* chunk; Read then returns false.
C21_ShortChunkFails ==
  /\ [][(ShortChunkAhead /\ pc' # pc)
          => /\ msgs' = Append(msgs, Fail("binary STL read failed", "ReadBinary", 0))
             /\ pc' = "Return"
             /\ failbit'
             /\ sinkCalls' = sinkCalls
             /\ blockFacets' = blockFacets]_vars
  /\ [][(msgs' # msgs /\ msgs'[Len(msgs')].text = "binary STL read failed")
          => ShortChunkAhead]_vars
  /\ []((pc = "done" /\ SentBy("binary STL read failed", "ReadBinary"))
          => result = FALSE)

\* A block that declares two facets and holds one: the chunk read of 100
\* bytes found 50, the failure was sent, nothing was delivered, and Read
\* returned false.
C21_Witness ==
  /\ pc = "done"
  /\ stream = BinBlock(Count32(2), <<K_T0>>)
  /\ msgs = <<Fail("binary STL read failed", "ReadBinary", 0)>>
  /\ sinkCalls = <<>>
  /\ pos = Len(stream)
  /\ result = FALSE


\* One binary block whose count field says c and that holds the records of
\* fs, for every c and fs of the files above with one block.
CountedBlocks ==
  {[bytes |-> BinBlock(Count32(c), fs), count |-> c, fs |-> fs] :
     c \in 0..(MaxFacets + 1), fs \in FacetLists({K_T0, K_T1}, MaxFacets)}

\* C22: the declared facet count of a binary block is a hint only.  When
\* it disagrees with the number of records the stream holds, decoding is
\* not aborted: the reader sends no failure, and it has decoded the records
\* up to whichever comes first, the declared count or the end of the
\* records.
C22_CountIsHint ==
  (pc = "done" /\ canOpen /\ ~cancel /\ ~isAscii)
  => \A b \in CountedBlocks :
       (stream = b.bytes /\ b.count # Len(b.fs))
       => /\ ~SentBy("binary STL read failed", "ReadBinary")
          /\ Len(blockFacets) = Min(b.count, Len(b.fs))
          /\ \A i \in 1..Len(blockFacets) :
               blockFacets[i] = <<PointVal(b.fs[i][1]), PointVal(b.fs[i][2]),
                                  PointVal(b.fs[i][3])>>


----------------------------------------------------------------------------
(* The endsolid line *)

\* The next line of the stream is, after its leading white space, the word
\* endsolid in some letter case.
EndsolidAhead ==
  /\ pos < Len(stream)
  /\ \E k \in 0..(FindLF(stream, pos) - pos) :
       /\ \A i \in 1..k : isspace(stream[pos + i])
       /\ pos + k + 8 <= FindLF(stream, pos)
       /\ [i \in 1..8 |-> tolower(stream[pos + k + i])] = W_endsolid

\* C23: in the text reader a line at a facet position that reads endsolid
\* after its leading white space, in any letter case, ends the block: that
\* line is the last one consumed for the block, no failure is sent, no sink
\* call is made and the reader returns true (when not cancelled).
C23_EndsolidEndsBlock ==
  [][(pc = "AsciiLoop" /\ pc' # pc /\ ~cancel /\ EndsolidAhead)
       => /\ pc' = "SkipWs"
          /\ msgs' = msgs
          /\ sinkCalls' = sinkCalls
          /\ sinkNodes' = sinkNodes
          /\ pos' = Min(FindLF(stream, pos) + 1, Len(stream))]_vars

\* The sample with "ENDSOLID" where its second facet starts: the block
\* ended there after one triangle, with the seven lines of the second
\* facet and the endsolid line still unread.
C23_Witness ==
  /\ pc = "SkipWs"
  /\ stream = Lines(ReplaceLine(SampleLines, 9, T_ENDSOLID))
  /\ nbBlocks = 1
  /\ msgs = <<>>
  /\ Cardinality(TriangleCalls) = 1
  /\ Rest = Lines(SubSeq(SampleLines, 10, 16))


----------------------------------------------------------------------------
(* The failed probe read *)

\* C24: when the probe read of IsAscii fails, detection returns Text,
\* whatever the bytes of the file, and sends one failure message; the
\* stream is left failed, so Read runs no block reader, makes no sink call
\* and returns false.
C24_FailedProbeIsText ==
  /\ [][(pc = "Detect" /\ pc' # pc /\ ~ShortFile(theEnd) /\ readError)
          => /\ isAscii'
             /\ msgs' = Append(msgs, Fail("Cannot read file", "IsAscii", 0))
             /\ failbit'
             /\ probed']_vars
  /\ []((readError /\ pc \notin {"Read", "Detect"})
          => /\ isAscii
             /\ msgs = <<Fail("Cannot read file", "IsAscii", 0)>>
             /\ failbit
             /\ nbBlocks = 0
             /\ sinkCalls = <<>> /\ sinkNodes = <<>>
             /\ pc \in {"Loop", "Return", "done"}
             /\ (pc = "done" => result = FALSE))

\* Read has returned false on a binary file whose probe read failed: the
\* format was taken for Text although the file has a byte above 0x7E in its
\* first 134, and no block was read.
C24_Witness ==
  /\ readError
  /\ pc = "done"
  /\ HighByteInProbe
  /\ isAscii
  /\ Len(msgs) = 1
  /\ nbBlocks = 0
  /\ result = FALSE


----------------------------------------------------------------------------
(* The format of a Read call *)

AsciiStates  == {"ReadAscii", "AsciiLoop", "AsciiEmit"}
BinaryStates == {"ReadBinary", "BinLoop", "BinEmit"}

\* C25: format detection runs once per Read call, before the first block.
\* The format is set by the detection step and by no other step, detection
\* is entered from the start of Read only, and every block of the call is
\* run by the reader of that format, whatever bytes the block starts with.
C25_FormatFixedPerCall ==
  /\ [][(isAscii' # isAscii \/ probed' # probed)
          => (pc = "Detect" /\ pc' = "Loop" /\ nbBlocks = 0)]_vars
  /\ [][(pc' = "Detect") => (pc \in {"Read", "Detect"})]_vars
  /\ [][(pc = "Loop" /\ pc' # pc /\ pc' # "Return")
          => pc' = IF isAscii THEN "ReadAscii" ELSE "ReadBinary"]_vars
  /\ []((pc \in AsciiStates => isAscii) /\ (pc \in BinaryStates => ~isAscii))

\* The text reader is started on the second block of a file detected as
\* Text, and that block starts with 134 bytes of which one is above 0x7E.
C25_Witness ==
  /\ pc = "ReadAscii"
  /\ nbBlocks = 2
  /\ isAscii
  /\ Len(stream) - pos >= THE_STL_MIN_FILE_SIZE
  /\ \E i \in 1..THE_STL_MIN_FILE_SIZE : stream[pos + i] > TILDE


----------------------------------------------------------------------------
(* Between two blocks *)

\* C26: after each block that a reader reports as complete, in text and in
\* binary mode alike, Read skips the white space that follows, all of it
\* and nothing else, and then runs the block reader again exactly when the
\* stream is good; a block after the first therefore starts at a byte that
\* is no white space.
C26_WhiteSpaceBetweenBlocks ==
  /\ [][(pc \in {"BinLoop", "AsciiLoop"} /\ pc' # pc /\ msgs' = msgs /\ ~cancel
           /\ pc' \notin {"AddNode"})
          => pc' = "SkipWs"]_vars
  /\ [][(pc' = "SkipWs" /\ pc' # pc)
          => (pc \in {"BinLoop", "AsciiLoop"} /\ msgs' = msgs /\ ~cancel)]_vars
  /\ [][(pc = "SkipWs" /\ pc' # pc)
          => /\ pc' = "Loop"
             /\ pos' >= pos
             /\ \A i \in (pos + 1)..pos' : isspace(stream[i])
             /\ (pos' = Len(stream) \/ ~isspace(stream[pos' + 1]))
             /\ sinkCalls' = sinkCalls /\ msgs' = msgs]_vars
  /\ [][(pc = "Loop" /\ pc' # pc)
          => /\ (pc' = (IF isAscii THEN "ReadAscii" ELSE "ReadBinary"))
                  <=> Good(eofbit, failbit)
             /\ pc' = "Return" <=> ~Good(eofbit, failbit)
             /\ pos' = pos]_vars
  /\ []((pc \in {"ReadAscii", "ReadBinary"} /\ nbBlocks >= 2)
          => (pos < Len(stream) /\ ~isspace(stream[pos + 1])))

\* The binary reader is started on a second block that stands after the
\* two white space bytes that follow the first block.
C26_Witness ==
  /\ pc = "ReadBinary"
  /\ nbBlocks = 2
  /\ ~isAscii
  /\ pos = THE_STL_MIN_FILE_SIZE + 2
  /\ isspace(stream[pos]) /\ isspace(stream[pos - 1])
  /\ Cardinality(TriangleCallsOf(1)) = 1


----------------------------------------------------------------------------
(* The numeric locale *)

\* The text reader is past its header line and has not returned.
InAsciiBlock == pc \in {"AsciiLoop", "AsciiEmit"} \/ (pc = "AddNode" /\ isAscii)

\* C27: the numeric locale in force when the text reader is entered is in
\* force again when it returns, on every exit path: inside the block the
\* locale is "C" and the one of the entry is kept aside; every step that
\* leaves the reader (endsolid, end of file at a vertex line, cancellation,
\* a failure, the failure at the header line included) ends with the locale
\* of the entry, and outside the reader the locale is the caller's.
C27_LocaleRestored ==
  /\ [][(pc = "ReadAscii" /\ pc' = "AsciiLoop")
          => (locale' = "C" /\ savedLocale' = locale)]_vars
  /\ [][(pc = "ReadAscii" /\ pc' \in {"Return", "SkipWs"}) => locale' = locale]_vars
  /\ [][InAsciiBlock => savedLocale' = savedLocale]_vars
  /\ [][(InAsciiBlock /\ pc' \in {"Return", "SkipWs"}) => locale' = savedLocale]_vars
  /\ [](InAsciiBlock => (locale = "C" /\ savedLocale = "user"))
  /\ [](~InAsciiBlock => locale = "user")

\* The text reader has returned on a failure at the second vertex line of
\* the second facet, after two passes under the "C" locale, and the locale
\* of the caller is in force.
C27_Witness ==
  /\ pc = "Return"
  /\ stream = Lines(ReplaceLine(SampleLines, 12, T_comma))
  /\ LastSent("cannot read vertex co-ordinates")
  /\ Len(blockFacets) = 1
  /\ locale = "user"


----------------------------------------------------------------------------
(* The cancellation checkpoints *)

\* The step of a reader at its loop test once cancellation was requested.
CancelledLoopTest == cancel /\ pc \in {"BinLoop", "AsciiLoop"} /\ pc' # pc

\* The reader returns at its loop test: nothing read, sent or delivered.
StopsThere ==
  /\ pc' = "Return"
  /\ pos' = pos
  /\ msgs' = msgs
  /\ sinkCalls' = sinkCalls
  /\ psSteps' = psSteps

----------------------------------------------------------------------------
(* Progress of the text reader *)

\* The number of step marks aStartPos + k * stepB, k >= 1, that lie below
\* the offset n bytes after the block start.
WholeSteps(n) == IF n <= 0 THEN 0 ELSE (n - 1) \div stepB

\* C29: in the text reader progress follows the consumed stream offset: at
\* every loop test one progress step has been made for each further step
\* of bytes (1 MiB) consumed since the block start, whatever the number of
\* lines or facets read, and the steps made never exceed the declared
\* total 1 + (end - start) / step.
C29_ProgressFollowsOffset ==
  /\ [][(pc = "AsciiLoop" /\ pc' # pc /\ ~cancel /\ Good(eofbit, failbit))
          => psSteps' = WholeSteps(pos - aStartPos)]_vars
  /\ [](InAsciiBlock
          => /\ aNbSteps = 1 + ((theEnd - aStartPos) \div stepB)
             /\ psSteps <= aNbSteps)


----------------------------------------------------------------------------
(* Progress of the binary reader *)

\* The binary reader is past its header and has not returned.
InBinaryBlock == pc \in {"BinLoop", "BinEmit"} \/ (pc = "AddNode" /\ ~isAscii)

\* The facets of the block that the reader is done with: those it took
\* from its buffer, less the one whose nodes and triangle are under way.
FacetsDone == IF pc = "BinLoop" THEN Len(blockFacets) ELSE Len(blockFacets) - 1

\* C30: in the binary reader the progress scope is declared with the facet
\* count and advanced by one unit per facet processed, a dropped facet
\* included: at any moment of a block the steps made equal the facets
\* processed and do not exceed the declared count (a negative count
\* declares no facet).
C30_BinaryStepPerFacet ==
  /\ [][(pc = "BinEmit" /\ pc' # pc) => psSteps' = psSteps + 1]_vars
  /\ [][(InBinaryBlock /\ pc # "BinEmit") => psSteps' = psSteps]_vars
  /\ [](InBinaryBlock
          => /\ aNbSteps = aNbFacets
             /\ psSteps = FacetsDone
             /\ psSteps = aNbFacetRead
             /\ psSteps <= (IF aNbFacets < 0 THEN 0 ELSE aNbFacets))

\* The binary reader at its loop test after the two facets of a block, one
\* of them dropped as degenerate: two progress steps, one triangle.
C30_Witness ==
  /\ pc = "BinLoop"
  /\ aNbFacets = 2
  /\ psSteps = 2
  /\ Len(blockFacets) = 2
  /\ Cardinality(TriangleCallsOf(nbBlocks)) = 1


----------------------------------------------------------------------------
(* After a cancellation request *)

\* C31: once cancellation has been requested neither reader begins another
\* facet.  No step after the request takes a new facet from the stream (the
\* facets handed to the merge tool and the points under way stay as they
\* are); the only sink calls made after it are those of the steps that
\* finish the facet under way, at most three nodes and one triangle for
\* its points; the next loop test returns, and Read starts no facet after.
C31_NoFacetAfterCancel ==
  /\ [][cancel => /\ aVertex' = aVertex
                  /\ (blockFacets' = blockFacets
                      \/ (pc \in {"ReadAscii", "ReadBinary"} /\ blockFacets' = <<>>))
                  /\ pc' # "AddNode" \/ pc = "AddNode"]_vars
  /\ [][(cancel /\ sinkCalls' # sinkCalls)
          => /\ pc \in {"AddNode", "BinEmit", "AsciiEmit"}
             /\ Len(sinkCalls') = Len(sinkCalls) + 1
             /\ (pc = "AddNode"
                   => sinkCalls'[Len(sinkCalls')].pnt = aVertex[Len(nodeIdx) + 1])
             /\ (pc # "AddNode"
                   => sinkCalls'[Len(sinkCalls')].n = nodeIdx)]_vars
  /\ [][(cancel /\ pc \in {"BinEmit", "AsciiEmit"} /\ pc' # pc)
          => pc' \in {"BinLoop", "AsciiLoop"}]_vars
  /\ [][(cancel /\ pc \in {"BinLoop", "AsciiLoop"} /\ pc' # pc)
          => (pc' = "Return" /\ sinkCalls' = sinkCalls)]_vars

\* A cancelled binary reader has returned after the first of two facets:
\* the three nodes and the triangle of that facet delivered, the record of
\* the second facet in the buffer and never decoded.
C31_Witness ==
  /\ pc = "Return"
  /\ cancel
  /\ ~isAscii
  /\ aNbFacets = 2 /\ aNbFacetRead = 1
  /\ aNbFacesInBuffer = 1
  /\ Len(blockFacets) = 1
  /\ Cardinality(NodeCalls) = 3
  /\ Cardinality(TriangleCalls) = 1
  /\ msgs = <<>>


----------------------------------------------------------------------------
(* A short chunk *)

\* The three points of the f-th 50-byte record of the binary block that
\* starts at offset b0 of the stream.
RecordPoints(b0, f) ==
  LET at == b0 + THE_STL_HEADER_SIZE + (f - 1) * THE_STL_SIZEOF_FACET IN
  << readStlFloatVec3(SubSeq(stream, at + aVec3Size + 1, at + 2 * aVec3Size)),
     readStlFloatVec3(SubSeq(stream, at + 2 * aVec3Size + 1, at + 3 * aVec3Size)),
     readStlFloatVec3(SubSeq(stream, at + 3 * aVec3Size + 1, at + 4 * aVec3Size)) >>

\* The binary reader has returned on a short chunk read.
ShortChunkFailed ==
  /\ pc \in {"Return", "done"}
  /\ ~isAscii
  /\ msgs # <<>>
  /\ msgs[Len(msgs)] = Fail("binary STL read failed", "ReadBinary", 0)

\* C32: when a binary chunk read comes up short, none of the facets of that
\* chunk is delivered, the ones whose 50 bytes were read included; what has
\* been delivered are the facets of the earlier chunks, all of them full
\* chunks of 80 facets.  The failing step decodes nothing and calls no sink;
\* after it the bytes that were read lie in the buffer, the facets decoded
\* are the records before the short chunk, a whole number of chunks, and
\* every sink call of the block is for one of them.
C32_ShortChunkDeliversNothing ==
  /\ [][(ShortChunkAhead /\ pc' # pc)
          => /\ sinkCalls' = sinkCalls
             /\ blockFacets' = blockFacets
             /\ aNbFacetRead' = aNbFacetRead
             /\ aBuffer' = SubSeq(stream, pos + 1, Len(stream))
             /\ ShortChunkFailed']_vars
  /\ [](ShortChunkFailed
          => LET b0 == Len(stream) - Len(aBuffer)
                         - aNbFacetRead * THE_STL_SIZEOF_FACET - THE_STL_HEADER_SIZE
             IN /\ aNbFacetRead % THE_CHUNK_NBFACETS = 0
                /\ aNbFacetRead < aNbFacets
                /\ Len(blockFacets) = aNbFacetRead
                /\ \A f \in 1..Len(blockFacets) : blockFacets[f] = RecordPoints(b0, f)
                /\ Len(aBuffer) < ChunkFacets(aNbFacets, aNbFacetRead) * THE_STL_SIZEOF_FACET
                /\ \A i \in NodeCallsOf(nbBlocks) :
                     \E f \in 1..Len(blockFacets), v \in 1..3 :
                       sinkCalls[i].pnt = blockFacets[f][v]
                /\ Cardinality(TriangleCallsOf(nbBlocks)) <= aNbFacetRead)

\* A block that declares 82 facets and holds 81: the first chunk of 80
\* facets was delivered, the second chunk read asked for 100 bytes and got
\* the 50 of the 81st record, which stays in the buffer undelivered.
C32_Witness ==
  /\ ShortChunkFailed
  /\ pc = "done"
  /\ aNbFacets = THE_CHUNK_NBFACETS + 2
  /\ aNbFacetRead = THE_CHUNK_NBFACETS
  /\ Len(aBuffer) = THE_STL_SIZEOF_FACET
  /\ RecordPoints(0, THE_CHUNK_NBFACETS + 1) = [v \in 1..3 |-> PointVal(K_T0[v])]
  /\ Len(blockFacets) = THE_CHUNK_NBFACETS
  /\ Cardinality(TriangleCalls) = THE_CHUNK_NBFACETS
  /\ result = FALSE


----------------------------------------------------------------------------
(* The sink calls of a text facet *)

\* The five lines the text reader takes for a facet, read from the read
\* position: the facet line, the outer loop line and three vertex lines.
AheadLines ==
  LET l1 == ReadLine(stream, pos)
      l2 == ReadLine(stream, l1.pos)
      l3 == ReadLine(stream, l2.pos)
      l4 == ReadLine(stream, l3.pos)
      l5 == ReadLine(stream, l4.pos)
  IN <<l1, l2, l3, l4, l5>>

\* The three vertex lines ahead are there and three numbers are read from
\* each of them.
ThreeVerticesAhead ==
  \A i \in 3..5 : ~AheadLines[i].isNull /\ ReadVertex(AheadLines[i].line).ok

\* C33: in the text reader the sink calls of a facet are made only after
\* all three of its vertex lines have been read and parsed.  The step that
\* reads the lines of a facet makes no sink call and touches no table; it
\* goes on to the AddNode calls only when the three vertex lines are there
\* and readable, with the three points read from them; every sink call of
\* the text reader is made by a later step, for those points.  A facet
\* with a vertex line missing or unreadable, whichever of the three it is,
\* adds no node and no triangle: the calls made are those of the facets
\* before it.
C33_SinkAfterThreeVertices ==
  /\ [][(pc = "AsciiLoop")
          => (sinkCalls' = sinkCalls /\ sinkNodes' = sinkNodes /\ myMap' = myMap)]_vars
  /\ [][(pc = "AsciiLoop" /\ pc' = "AddNode")
          => /\ ThreeVerticesAhead
             /\ aVertex' = [v \in 1..3 |-> ReadVertex(AheadLines[v + 2].line).pnt]
             /\ pos' = AheadLines[5].pos]_vars
  /\ [][(pc = "AsciiLoop" /\ pc' # pc /\ ~ThreeVerticesAhead)
          => (pc' # "AddNode" /\ blockFacets' = blockFacets)]_vars
  /\ [][(isAscii /\ sinkCalls' # sinkCalls)
          => /\ pc \in {"AddNode", "AsciiEmit"}
             /\ aVertex' = aVertex
             /\ aVertex = blockFacets[Len(blockFacets)]]_vars
  /\ [](\A i \in 4..6 :
          (pc = "done" /\ canOpen /\ ~readError
             /\ stream \in {FooAt(i), CutAfter(i - 1)})
          => (sinkCalls = <<>> /\ blockFacets = <<>>))
  /\ [](\A i \in 11..13 :
          (pc = "done" /\ canOpen /\ ~readError /\ ~cancel
             /\ stream \in {FooAt(i), CutAfter(i - 1)})
          => /\ Len(sinkCalls) = 4
             /\ \A c \in NodeCalls : \E v \in 1..3 : sinkCalls[c].pnt = PointVal(K_T0[v])
             /\ Len(blockFacets) = 1)

\* The sample with its last vertex line replaced by "foo": two points of
\* the second facet were read when the failure came, and the calls made are
\* the three nodes and the triangle of the first facet.
C33_Witness ==
  /\ pc = "done"
  /\ stream = FooAt(13)
  /\ LastSent("cannot read vertex co-ordinates")
  /\ Len(sinkCalls) = 4
  /\ Cardinality(NodeCalls) = 3
  /\ Len(blockFacets) = 1


----------------------------------------------------------------------------
(* The order of the sink calls *)

\* The sink calls of lines 404-410 and 491-497 for the facets fs, one facet
\* after the other, on a merge tool with the table map and a sink that
\* holds nodes: for each vertex in turn the node call of a miss, then the
\* triangle call when the three indices differ.
RECURSIVE FacetCalls(_, _, _, _)
FacetCalls(fs, map, nodes, blk) ==
  IF fs = <<>> THEN <<>>
  ELSE LET a1 == MergeNodeTool_AddNode(map, nodes, Head(fs)[1])
           a2 == MergeNodeTool_AddNode(a1.map, a1.nodes, Head(fs)[2])
           a3 == MergeNodeTool_AddNode(a2.map, a2.nodes, Head(fs)[3])
       IN (IF a1.hit THEN <<>> ELSE <<NodeCall(Head(fs)[1], a1.idx, blk)>>)
          \o (IF a2.hit THEN <<>> ELSE <<NodeCall(Head(fs)[2], a2.idx, blk)>>)
          \o (IF a3.hit THEN <<>> ELSE <<NodeCall(Head(fs)[3], a3.idx, blk)>>)
          \o (IF IsTriangle(a1.idx, a2.idx, a3.idx)
              THEN <<TriangleCall(a1.idx, a2.idx, a3.idx, blk)>> ELSE <<>>)
          \o FacetCalls(Tail(fs), a3.map, a3.nodes, blk)

\* The sink calls of the block under way, in the order they were made.
CallsOfBlock == SelectSeq(sinkCalls, LAMBDA c : c.block = nbBlocks)

\* C34: for every facet, in both readers, new nodes are registered in
\* vertex order, then the triangle is emitted with its indices in the same
\* order, and facets are handled in stream order.  Each AddNode step takes
\* the next vertex of the facet and puts its index after those of the
\* vertices before it; the triangle is emitted after the third, with the
\* three indices as they stand; a facet is taken from the stream only at
\* the loop test, which is reached from the block header or from the step
\* that ends a facet.  At a loop test the sink calls of the block are, call
\* for call, those of the facets read so far taken one after the other.
C34_SinkCallOrder ==
  /\ [][(pc = "AddNode" /\ nodeIdx' # nodeIdx)
          => /\ Len(nodeIdx') = Len(nodeIdx) + 1
             /\ SubSeq(nodeIdx', 1, Len(nodeIdx)) = nodeIdx
             /\ lastAdd'.pnt = aVertex[Len(nodeIdx) + 1]
             /\ lastAdd'.idx = nodeIdx'[Len(nodeIdx')]
             /\ (sinkCalls' # sinkCalls
                   => sinkCalls' = Append(sinkCalls,
                                          NodeCall(aVertex[Len(nodeIdx) + 1],
                                                   nodeIdx'[Len(nodeIdx')], nbBlocks)))
             /\ pc' = (IF Len(nodeIdx') < 3 THEN "AddNode"
                       ELSE IF isAscii THEN "AsciiEmit" ELSE "BinEmit")]_vars
  /\ [][(EmitStep /\ sinkCalls' # sinkCalls)
          => /\ Len(nodeIdx) = 3
             /\ sinkCalls' = Append(sinkCalls,
                                    TriangleCall(nodeIdx[1], nodeIdx[2], nodeIdx[3],
                                                 nbBlocks))]_vars
  /\ [][(blockFacets' # blockFacets /\ blockFacets' # <<>>)
          => /\ pc \in {"BinLoop", "AsciiLoop"}
             /\ pc' = "AddNode"
             /\ nodeIdx' = <<>>
             /\ blockFacets' = Append(blockFacets, aVertex')]_vars
  /\ [][(pc' \in {"BinLoop", "AsciiLoop"} /\ pc' # pc)
          => pc \in {"ReadBinary", "ReadAscii", "BinEmit", "AsciiEmit"}]_vars
  /\ [](pc \in {"BinLoop", "AsciiLoop"}
          => CallsOfBlock
               = FacetCalls(blockFacets, <<>>,
                            SubSeq(sinkNodes, 1,
                                   Len(sinkNodes) - Cardinality(NodeCallsOf(nbBlocks))),
                            nbBlocks))

\* Two facets that share their second and third vertex, read to the end:
\* three nodes and the triangle of the first facet, then the one new node
\* of the second facet, its first vertex, and the triangle that names the
\* new node first.
C34_Witness ==
  /\ pc = "done"
  /\ blockFacets = <<[v \in 1..3 |-> PointVal(K_T0[v])], [v \in 1..3 |-> PointVal(K_H[v])]>>
  /\ sinkCalls = << NodeCall(PointVal(K_T0[1]), 1, 1),
                    NodeCall(PointVal(K_T0[2]), 2, 1),
                    NodeCall(PointVal(K_T0[3]), 3, 1),
                    TriangleCall(1, 2, 3, 1),
                    NodeCall(PointVal(K_H[1]), 4, 1),
                    TriangleCall(4, 2, 3, 1) >>


----------------------------------------------------------------------------
(* The nodes of a dropped facet *)

\* The points of the block that went through an AddNode call: those of the
\* facets read and, while the calls of the last facet are under way, those
\* of the facets before it and its vertices handled so far.
SeenPoints ==
  IF pc = "AddNode"
  THEN {blockFacets[f][v] : f \in 1..(Len(blockFacets) - 1), v \in 1..3}
       \cup {aVertex[v] : v \in 1..Len(nodeIdx)}
  ELSE {blockFacets[f][v] : f \in 1..Len(blockFacets), v \in 1..3}

\* The table merges the points p and q: same bucket, within the tolerance.
Merged(p, q) == HashCode(p, NbBuckets) = HashCode(q, NbBuckets) /\ IsEqual(p, q)

\* C35: a dropped degenerate facet still registers its vertices, so the
\* sink AddNode calls of a block are one per non-merged point of its fully
\* read facets.  The step that drops a facet takes no node back.  In a
\* block every point seen is merged with a registered point, every
\* registered point is a point seen (of an emitted or of a dropped facet),
\* no two registered points are merged with each other, and a point that
\* merges with none seen before it is registered itself.
C35_DroppedFacetRegisters ==
  /\ [][(EmitStep /\ ~IsTriangle(nodeIdx[1], nodeIdx[2], nodeIdx[3]))
          => /\ sinkCalls' = sinkCalls
             /\ sinkNodes' = sinkNodes
             /\ myMap' = myMap
             /\ \A v \in 1..3 : \E i \in NodeCallsOf(nbBlocks) :
                  sinkCalls[i].idx = nodeIdx[v] /\ Merged(sinkCalls[i].pnt, aVertex[v])]_vars
  /\ [](InBlock
          => /\ \A p \in SeenPoints : \E i \in NodeCallsOf(nbBlocks) :
                  Merged(sinkCalls[i].pnt, p)
             /\ PointsOf(nbBlocks) \subseteq SeenPoints
             /\ \A i, j \in NodeCallsOf(nbBlocks) :
                  i # j => ~Merged(sinkCalls[i].pnt, sinkCalls[j].pnt)
             /\ \A p \in SeenPoints :
                  (\A q \in SeenPoints \ {p} : ~Merged(p, q)) => p \in PointsOf(nbBlocks)
             /\ Cardinality(NodeCallsOf(nbBlocks)) = Cardinality(PointsOf(nbBlocks)))

\* A degenerate facet, then a facet with its two points and a third one:
\* the two nodes come from the dropped facet, the third node and the only
\* triangle from the second facet.
C35_Witness ==
  /\ pc \in {"BinLoop", "AsciiLoop"}
  /\ blockFacets = <<[v \in 1..3 |-> PointVal(K_Deg[v])], [v \in 1..3 |-> PointVal(K_T0[v])]>>
  /\ sinkCalls = << NodeCall(PointVal(K_T0[1]), 1, 1),
                    NodeCall(PointVal(K_T0[2]), 2, 1),
                    NodeCall(PointVal(K_T0[3]), 3, 1),
                    TriangleCall(1, 2, 3, 1) >>


----------------------------------------------------------------------------
(* The bytes of a binary block *)

\* The facets whose records the binary reader has taken from the stream:
\* those it is done with and those left in its buffer.
FacetsFetched == aNbFacetRead + (IF aNbFacesInBuffer > 0 THEN aNbFacesInBuffer ELSE 0)

\* The first block was a binary block and the reader returned true from it.
FirstBinaryBlockDone == pc = "SkipWs" /\ nbBlocks = 1 /\ ~isAscii

----------------------------------------------------------------------------
(* The count field *)

\* The four bytes of the count field of the block whose header starts at
\* the read position.
CountField == SubSeq(stream, pos + 81, pos + THE_STL_HEADER_SIZE)

\* C37: the count field is taken as a signed 32-bit integer.  A field with
\* its top bit set gives a negative count, a field of four zero bytes the
\* count zero, and with either the binary reader processes no facet, asks
\* the stream for no facet byte, calls no sink and, when it is not
\* cancelled, returns true without a failure message.  Read then goes on
\* with the bytes after the 84 of the block.
C37_SignedCount ==
  /\ [][(pc = "ReadBinary" /\ pc' = "BinLoop")
          => /\ (CountField[4] >= 128 <=> aNbFacets' < 0)
             /\ (CountField = <<0, 0, 0, 0>> <=> aNbFacets' = 0)
             /\ (CountField[4] < 128
                   => aNbFacets' = CountField[1] + 256 * CountField[2]
                                     + 65536 * CountField[3] + 16777216 * CountField[4])
             /\ (CountField = <<255, 255, 255, 255>> => aNbFacets' = -1)
             /\ (CountField = <<0, 0, 0, 128>> => aNbFacets' = -2147483647 - 1)]_vars
  /\ []((InBinaryBlock /\ aNbFacets <= 0)
          => /\ pc = "BinLoop"
             /\ blockFacets = <<>>
             /\ aBuffer = <<>>
             /\ NodeCallsOf(nbBlocks) = {} /\ TriangleCallsOf(nbBlocks) = {})
  /\ [][(pc = "BinLoop" /\ aNbFacets <= 0 /\ pc' # pc)
          => /\ pc' = (IF cancel THEN "Return" ELSE "SkipWs")
             /\ pos' = pos /\ eofbit' = eofbit /\ failbit' = failbit
             /\ sinkCalls' = sinkCalls
             /\ msgs' = msgs
             /\ psSteps' = psSteps]_vars
  /\ [](\A c \in {<<0, 0, 0, 0>>, <<0, 0, 0, 128>>, <<255, 255, 255, 255>>} :
          (canOpen /\ stream = BinBlock(c, <<K_T0>>))
          => /\ sinkCalls = <<>>
             /\ ~SentBy("binary STL read failed", "ReadBinary")
             /\ (pc = "SkipWs" /\ nbBlocks = 1)
                  => (msgs = <<>> /\ pos = THE_STL_HEADER_SIZE)
             /\ (pc = "done" /\ ~cancel) => nbBlocks = 2)

\* A block whose count field is FF FF FF FF, followed by a facet record:
\* the reader returned true at offset 84 with no sink call and no message.
C37_Witness ==
  /\ pc = "SkipWs"
  /\ nbBlocks = 1
  /\ stream = BinBlock(<<255, 255, 255, 255>>, <<K_T0>>)
  /\ aNbFacets = -1
  /\ pos = THE_STL_HEADER_SIZE
  /\ sinkCalls = <<>>
  /\ msgs = <<>>


----------------------------------------------------------------------------
(* Termination *)

\* C38: Read terminates on every finite stream, with or without a
\* cancellation request.  Inside the block loop the stream never moves
\* back; the header step of a block consumes at least one byte or ends the
\* loop; a pass of the text facet loop consumes at least one byte or ends
\* the block; a pass of the binary facet loop reads a chunk or takes the
\* next record of the buffer, and in either case moves on by one facet of
\* the declared count, or ends the block; a block that ends hands over to
\* the white space step or to the return of Read.  Under the scheduling of
\* a sequential call, Read returns.
C38_ReadTerminates ==
  /\ [][(pc \notin {"Read", "Detect"}) => pos' >= pos]_vars
  /\ [][(pc \in {"ReadAscii", "ReadBinary"} /\ pc' # pc)
          => (pos' > pos \/ pc' = "Return")]_vars
  /\ [][(pc = "AsciiLoop" /\ pc' # pc)
          => (pos' > pos \/ pc' \in {"Return", "SkipWs"})]_vars
  /\ [][(pc = "BinLoop" /\ pc' # pc)
          => \/ pc' \in {"Return", "SkipWs"}
             \/ (aNbFacesInBuffer <= 0 /\ pos' > pos /\ aNbFacetRead < aNbFacets)
             \/ (aNbFacesInBuffer > 0 /\ aNbFacetRead < aNbFacets)]_vars
  /\ [][(pc = "BinEmit" /\ pc' # pc)
          => /\ aNbFacetRead' = aNbFacetRead + 1
             /\ aNbFacesInBuffer' = aNbFacesInBuffer - 1
             /\ aBufferPtr' = aBufferPtr + THE_STL_SIZEOF_FACET
             /\ aBufferPtr' <= Len(aBuffer)]_vars
  /\ [][(pc = "AsciiEmit" /\ pc' # pc) => pc' = "AsciiLoop"]_vars
  /\ [][(pc = "Loop" /\ pc' # pc /\ ~Good(eofbit, failbit)) => pc' = "Return"]_vars
  /\ [][(pc = "SkipWs" /\ pc' # pc /\ pos' = pos)
          => (pos = Len(stream) => eofbit')]_vars
  /\ [][pc' # pc => Program]_vars
  /\ [](pc \in PcValues)
  /\ <>(pc = "done")

\* Read has returned from a text file of two blocks, read to its last
\* byte without a cancellation request.
C38_Witness ==
  /\ pc = "done"
  /\ ~cancel
  /\ isAscii
  /\ nbBlocks = 2
  /\ pos = Len(stream)
  /\ TriangleCallsOf(1) # {}
  /\ TriangleCallsOf(2) # {}
  /\ msgs = <<>>

----------------------------------------------------------------------------
(* The table of a block *)

\* C39: in every state of a block the table holds no two entries of one
\* hash bucket whose points are equal within the tolerance, every stored
\* index is one the sink returned in this block, for the point it is
\* stored with, and the table has as many entries as the sink had AddNode
\* calls in this block.
C39_TableInvariant ==
  InBlock
  => /\ \A i, j \in 1..Len(myMap) :
          (i # j /\ HashCode(myMap[i].pnt, NbBuckets) = HashCode(myMap[j].pnt, NbBuckets))
          => ~IsEqual(myMap[i].pnt, myMap[j].pnt)
     /\ \A e \in 1..Len(myMap) : \E i \in NodeCallsOf(nbBlocks) :
          /\ sinkCalls[i].idx = myMap[e].idx
          /\ sinkCalls[i].pnt = myMap[e].pnt
     /\ \A i \in NodeCallsOf(nbBlocks) : \E e \in 1..Len(myMap) :
          myMap[e] = [pnt |-> sinkCalls[i].pnt, idx |-> sinkCalls[i].idx]
     /\ Len(myMap) = Cardinality(NodeCallsOf(nbBlocks))

\* The table of a second block after a lookup that hit: it holds the two
\* entries of this block, with indices above those of the first block, and
\* their points share a bucket without being equal within the tolerance.
C39_Witness ==
  /\ InBlock
  /\ nbBlocks = 2
  /\ NodeCallsOf(1) # {}
  /\ Len(myMap) = 2
  /\ lastAdd.hit /\ lastAdd.block = 2
  /\ \A e \in 1..Len(myMap) : myMap[e].idx > Cardinality(NodeCallsOf(1))
  /\ \E i, j \in 1..Len(myMap) :
       /\ i # j
       /\ HashCode(myMap[i].pnt, NbBuckets) = HashCode(myMap[j].pnt, NbBuckets)

====
